---- MODULE Spec2Model ----
(***************************************************************************)
(* Seat-booking server (the Express application that follows the SeatGrid  *)
(* component in src/frontend/src/components/SeatGrid.jsx, lines 80-1057).  *)
(*                                                                         *)
(* Every route handler of the server is a synchronous JavaScript function *)
(* (only signup and login await), so a handler runs to completion before   *)
(* the next request is served: one action per handler.  The wall clock is  *)
(* read several times inside one handler (moment(), nowTs() in             *)
(* clearExpiredLocksForDate, nowTs() again in the handler), and it may     *)
(* advance between two reads.                                              *)
(*                                                                         *)
(* Time is counted in minutes from the start of the modelled window, which *)
(* begins at 14:58 local time on Wednesday 2024-01-03; dates are day       *)
(* numbers counted from Monday 2024-01-01.                                 *)
(***************************************************************************)
EXTENDS Integers, Sequences, FiniteSets, TLC

VARIABLES
    users,            \* Map userId -> user record
    usersByEmail,     \* Map email -> userId
    inflight,         \* the signups suspended at `await bcrypt.hash`
    seatDefinitions,  \* array of { seatId, type, assignedTo }
    bookings,         \* array of { date, seatId, userId }
    locks,            \* array of { date, seatId, userId, lockExpiry }
    leaves,           \* array of { userId, date, seatId }
    batchSchedule,    \* batch -> { week1, week2 }
    holidays,         \* Set of dates
    clock,            \* the wall clock, minutes since the start of the window
    last              \* the last request served and its response

vars == <<users, usersByEmail, inflight, seatDefinitions, bookings, locks, leaves,
          batchSchedule, holidays, clock, last>>

(***************************** bounds **************************************)

\* the floor of the model: seats 1..TotalSeats (the source has 50)
TotalSeats == 2
\* the last FloaterSeatCount seats are floaters (the source has 10)
FloaterSeatCount == 1
\* longest seatIds list of a request
MaxLen == 2
\* the clock runs from 0 to MaxClock
MaxClock == 3
\* at most this many Booking / Lock / Leave records are kept in a run
MaxBookings == 2
MaxLocks == 2
MaxLeaves == 1
\* Lock records the policy scenarios keep at a time
PolicyMaxLocks == 1
MaxUsers == 4
MaxInflight == 2

(************************** program constants ******************************)

\* 2 * 60 * 1000 ms, in minutes
LOCK_DURATION_MS == 2
\* variant: the limit lets one seat more through
MAX_SEATS_PER_BOOKING_OffByOne == 5 + 1
MAX_SEATS_PER_BOOKING == 5
\* null, as a seat id and as a date
Null == -1
\* null, as a user id
NoUser == "null"

\* minute of the day at clock = 0 (14:58), and the day number of that day
StartMinute == 898
Today == 2
MinutesPerDay == 1440

DEFAULT_BATCH_SCHEDULE ==
    [batch1 |-> [week1 |-> <<"Mon", "Tue", "Wed">>, week2 |-> <<"Thu", "Fri">>],
     batch2 |-> [week1 |-> <<"Thu", "Fri">>, week2 |-> <<"Mon", "Tue", "Wed">>]]

(***************************** inputs **************************************)

UserIds == {"ann1", "bob2"}
Seats == 1..TotalSeats
\* seat ids a request may carry: 0 and TotalSeats + 1 are not in the catalog
SeatIdInputs == 0..(TotalSeats + 1)
\* Wed 2024-01-03 (today), Thu 2024-01-04 (tomorrow), Sat 2024-01-06
Dates == {Today, Today + 1, Today + 3}
\* a request may also come without a date
DateInputs == Dates \cup {Null}
SeatIdLists == UNION {[1..n -> SeatIdInputs] : n \in 0..MaxLen}

(***************************** utilities ***********************************)

Includes(s, x) == \E i \in 1..Len(s) : s[i] = x

\* Array.prototype.findIndex, 1-based; 0 when nothing matches
FindIndex(s, P(_)) ==
    LET hits == {i \in 1..Len(s) : P(s[i])}
    IN  IF hits = {} THEN 0 ELSE CHOOSE i \in hits : \A j \in hits : i <= j

Exists(s, P(_)) == \E i \in 1..Len(s) : P(s[i])

getSeatDefinition(defs, seatId) == FindIndex(defs, LAMBDA s : s.seatId = seatId)

initSeatDefinitions ==
    [seatId \in 1..TotalSeats |->
        [seatId |-> seatId,
         type |-> IF seatId >= TotalSeats - FloaterSeatCount + 1
                  THEN "floater" ELSE "designated",
         assignedTo |-> NoUser]]

(****************************** calendar ***********************************)

IsLeap(y) == (y % 4 = 0 /\ y % 100 # 0) \/ y % 400 = 0
DaysInYear(y) == IF IsLeap(y) THEN 366 ELSE 365

\* the year of day number n and the day number of its 1 January
RECURSIVE YearFrom(_, _, _)
YearFrom(n, y, start) ==
    IF n < start + DaysInYear(y) THEN [year |-> y, start |-> start]
    ELSE YearFrom(n, y + 1, start + DaysInYear(y))

\* moment().day(): 0 Sunday .. 6 Saturday (day 0 is a Monday)
day(d) == (d + 1) % 7

\* moment().isoWeek(): the week of the year of the Thursday of d's week
isoWeek(d) ==
    LET th == (d - (d % 7)) + 3
        y == YearFrom(th, 2024, 0)
    IN  ((th - y.start) \div 7) + 1

\* variant: only Sunday counts as weekend
isWeekend_SundayOnly(d) == day(d) = 0

isWeekend(d) == day(d) = 0 \/ day(d) = 6

isHoliday(hs, d) == d \in hs

getWeekType(d) == IF isoWeek(d) % 2 = 0 THEN "week2" ELSE "week1"

getDayName(d) == <<"Sun", "Mon", "Tue", "Wed", "Thu", "Fri", "Sat">>[day(d) + 1]

isBatchScheduledOnDate(sched, batch, d) ==
    IF batch \notin DOMAIN sched THEN FALSE
    ELSE Includes(sched[batch][getWeekType(d)], getDayName(d))

\* the local day and hour of a clock value
DayOf(t) == Today + ((StartMinute + t) \div MinutesPerDay)
HourOf(t) == ((StartMinute + t) % MinutesPerDay) \div 60

(****************************** responses **********************************)

\* a response message: its text (without the seat number) and the seat it names
Msg(text, seat) == [text |-> text, seat |-> seat]
NoError == Msg("", Null)

E_DATE == "date is required"
E_EMPTY == "seatIds must be a non-empty array"
E_NOSEAT == "Seat does not exist"
E_LOCKDAY == "Locking is not allowed on weekends or holidays."
E_BOOKDAY == "Booking is not allowed on weekends or holidays."
E_LEAVE == "You have marked leave for this date. Booking is not allowed."
E_ADVANCE == "Advance booking for tomorrow opens after 3 PM today."
E_NOTYOURS == "Seat is a designated seat and not assigned to you."
E_BATCHDAY == "Your designated seat can only be booked on your scheduled batch days."
E_BOOKED == "Seat is already booked"
E_LOCKED == "Seat is locked by another user"
E_EXPIRED == "Lock for seat has expired"
E_MAXSEATS == "You can book a maximum of seats per booking"
E_CANCEL == "You can only cancel your own booked seats for the given date. Problem with seat"
E_ADMIN == "Admin access required"
E_BATCH == "newBatch must be batch1 or batch2"
E_ACTIVE == "Cannot switch batch while you have an active booking for this date"
E_SIGNUP == "name, email, password and batch are required"
E_SIGNUPBATCH == "batch must be \"batch1\" or \"batch2\""
E_REGISTERED == "Email is already registered"
E_SIGNUPSEAT == "Invalid designatedSeatId"
E_LOGIN == "email and password are required"
E_CREDENTIALS == "Invalid credentials"
E_FORCE == "date and seatId are required"
E_SCHEDULE == "schedule is required"
E_SEATTYPE == "seatId and type are required"
E_TYPE == "type must be \"designated\" or \"floater\""
E_SEAT404 == "Seat not found"
E_ASSIGN == "userId and seatId are required"
E_USER404 == "User not found"

(************************** policy validation ******************************)

validateSeatIds(seatIds) ==
    IF Len(seatIds) = 0 THEN Msg(E_EMPTY, Null)
    ELSE LET i == FindIndex(seatIds,
                      LAMBDA id : getSeatDefinition(seatDefinitions, id) = 0)
         IN  \* find() returns the id itself, and `if (invalid)` is false for 0
             IF i # 0 /\ seatIds[i] # 0 THEN Msg(E_NOSEAT, seatIds[i])
             ELSE NoError

isUserOnLeave(userId, d) ==
    Exists(leaves, LAMBDA l : l.userId = userId /\ l.date = d)

\* variant: a designated seat is not checked against its owner
SeatPolicyError_AnyOwner(userId, d, seatId, isBatchDay) ==
    LET i == getSeatDefinition(seatDefinitions, seatId) IN
    IF i = 0 THEN Msg(E_NOSEAT, seatId)
    ELSE LET def == seatDefinitions[i] IN
         IF def.type # "designated" THEN NoError
         ELSE IF def.assignedTo = NoUser THEN NoError
         ELSE IF isUserOnLeave(def.assignedTo, d) THEN NoError
         ELSE IF ~isBatchDay THEN Msg(E_BATCHDAY, Null)
         ELSE NoError

\* the body of the loop over seatIds of validateBookingPolicy, for one seat
SeatPolicyError(userId, d, seatId, isBatchDay) ==
    LET i == getSeatDefinition(seatDefinitions, seatId) IN
    IF i = 0 THEN Msg(E_NOSEAT, seatId)
    ELSE LET def == seatDefinitions[i] IN
         IF def.type # "designated" THEN NoError
         ELSE IF def.assignedTo = NoUser THEN NoError
         ELSE IF isUserOnLeave(def.assignedTo, d) THEN NoError
         ELSE IF def.assignedTo # userId THEN Msg(E_NOTYOURS, seatId)
         ELSE IF ~isBatchDay THEN Msg(E_BATCHDAY, Null)
         ELSE NoError

\* variant: the leave of the caller is not looked at
validateBookingPolicy_NoLeaveCheck(userId, d, seatIds, t) ==
    IF isWeekend(d) \/ isHoliday(holidays, d) THEN Msg(E_BOOKDAY, Null)
    ELSE LET isBatchDay == isBatchScheduledOnDate(batchSchedule, users[userId].batch, d) IN
         IF d = DayOf(t) + 1 /\ HourOf(t) < 15 THEN Msg(E_ADVANCE, Null)
         ELSE LET i == FindIndex(seatIds,
                           LAMBDA id : SeatPolicyError(userId, d, id, isBatchDay) # NoError)
              IN  IF i = 0 THEN NoError
                  ELSE SeatPolicyError(userId, d, seatIds[i], isBatchDay)

\* variant: the cutoff also refuses the hour from 15:00 to 15:59
validateBookingPolicy_CutoffAfter15(userId, d, seatIds, t) ==
    IF isWeekend(d) \/ isHoliday(holidays, d) THEN Msg(E_BOOKDAY, Null)
    ELSE IF isUserOnLeave(userId, d) THEN Msg(E_LEAVE, Null)
    ELSE LET isBatchDay == isBatchScheduledOnDate(batchSchedule, users[userId].batch, d) IN
         IF d = DayOf(t) + 1 /\ HourOf(t) <= 15 THEN Msg(E_ADVANCE, Null)
         ELSE LET i == FindIndex(seatIds,
                           LAMBDA id : SeatPolicyError(userId, d, id, isBatchDay) # NoError)
              IN  IF i = 0 THEN NoError
                  ELSE SeatPolicyError(userId, d, seatIds[i], isBatchDay)

\* `t` is the clock value moment() reads
validateBookingPolicy(userId, d, seatIds, t) ==
    IF isWeekend(d) \/ isHoliday(holidays, d) THEN Msg(E_BOOKDAY, Null)
    ELSE IF isUserOnLeave(userId, d) THEN Msg(E_LEAVE, Null)
    ELSE LET isBatchDay == isBatchScheduledOnDate(batchSchedule, users[userId].batch, d) IN
         IF d = DayOf(t) + 1 /\ HourOf(t) < 15 THEN Msg(E_ADVANCE, Null)
         ELSE LET i == FindIndex(seatIds,
                           LAMBDA id : SeatPolicyError(userId, d, id, isBatchDay) # NoError)
              IN  IF i = 0 THEN NoError
                  ELSE SeatPolicyError(userId, d, seatIds[i], isBatchDay)

\* moment(d).isoWeek(n) moves d by (n - isoWeek(d)) weeks; startOf('isoWeek')
\* is the Monday and endOf('isoWeek') the Sunday of the week reached
getCycleBounds(d) ==
    LET w == isoWeek(d)
        isWeek1 == w % 2 = 1
        week1Num == IF isWeek1 THEN w ELSE w - 1
        week2Num == week1Num + 1
        s1 == d + (week1Num - w) * 7
        e1 == d + (week2Num - w) * 7
    IN  [start |-> s1 - (s1 % 7), end |-> (e1 - (e1 % 7)) + 6]

\* variant: every booking adds one, also a second seat on the same date
getAttendanceCountForCycle_PerBooking(bs, userId, d) ==
    LET c == getCycleBounds(d) IN
    Cardinality({i \in 1..Len(bs) : /\ bs[i].userId = userId
                                     /\ bs[i].date >= c.start
                                     /\ bs[i].date <= c.end})

getAttendanceCountForCycle(bs, userId, d) ==
    LET c == getCycleBounds(d) IN
    Cardinality({bs[i].date : i \in {j \in 1..Len(bs) : /\ bs[j].userId = userId
                                                         /\ bs[j].date >= c.start
                                                         /\ bs[j].date <= c.end}})

buildPolicySummary(userId, d) ==
    LET isWeekendOrHoliday == isWeekend(d) \/ isHoliday(holidays, d)
        isBatchDay == isBatchScheduledOnDate(batchSchedule, users[userId].batch, d)
        isFloaterOnlyDay == ~isBatchDay /\ ~isWeekendOrHoliday
        attendanceCount == getAttendanceCountForCycle(bookings, userId, d)
        attendanceRequired == 5
        onLeave == isUserOnLeave(userId, d)
    IN  [isWeekendOrHoliday |-> isWeekendOrHoliday,
         isBatchDay |-> isBatchDay,
         canUseDesignatedToday |-> isBatchDay,
         isFloaterOnlyDay |-> isFloaterOnlyDay,
         attendanceCount |-> attendanceCount,
         attendanceRequired |-> attendanceRequired,
         onLeave |-> onLeave,
         warnings |->
            (IF isWeekendOrHoliday THEN <<"disabled">>
             ELSE IF isFloaterOnlyDay THEN <<"floater-only">> ELSE <<>>)
            \o (IF attendanceCount < attendanceRequired THEN <<"attendance">> ELSE <<>>)
            \o (IF onLeave THEN <<"leave">> ELSE <<>>)]

(**************************** reservation store ****************************)

\* variant: expired locks are never purged
clearExpiredLocks_NoPurge(ls, d, now) == ls

\* variant: a lock is kept at the very minute of its expiry
clearExpiredLocks_KeepAtExpiry(ls, d, now) ==
    SelectSeq(ls, LAMBDA l : l.date # d \/ l.lockExpiry >= now)

clearExpiredLocksForDate(ls, d, now) ==
    SelectSeq(ls, LAMBDA l : l.date # d \/ l.lockExpiry > now)

\* bookings.find / locks.find on (date, seatId): 0 when there is none
findBooking(bs, d, seatId) == FindIndex(bs, LAMBDA b : b.date = d /\ b.seatId = seatId)
findLock(ls, d, seatId) == FindIndex(ls, LAMBDA l : l.date = d /\ l.seatId = seatId)

\* variant: the acquire does not look at the locks of other users
LockSeatError_IgnoreLocks(bs, ls, userId, d, seatId, now) ==
    IF findBooking(bs, d, seatId) # 0 THEN Msg(E_BOOKED, seatId) ELSE NoError

\* the check loop of POST /api/lock, for one seat
LockSeatError(bs, ls, userId, d, seatId, now) ==
    IF findBooking(bs, d, seatId) # 0 THEN Msg(E_BOOKED, seatId)
    ELSE LET i == findLock(ls, d, seatId) IN
         IF i # 0 /\ ls[i].userId # userId /\ ls[i].lockExpiry > now
         THEN Msg(E_LOCKED, seatId)
         ELSE NoError

\* variant: every acquired seat gets a new Lock record, the caller's old one stays
RECURSIVE SetLocks_AlwaysPush(_, _, _, _, _, _)
SetLocks_AlwaysPush(ls, userId, d, seatIds, i, lockExpiry) ==
    IF i > Len(seatIds) THEN ls
    ELSE SetLocks_AlwaysPush(
            Append(ls, [date |-> d, seatId |-> seatIds[i], userId |-> userId,
                        lockExpiry |-> lockExpiry]),
            userId, d, seatIds, i + 1, lockExpiry)

\* the seatIds.forEach of POST /api/lock, from position i on
\* variant: a Lock the caller already holds keeps its old expiry
RECURSIVE SetLocks_KeepExpiry(_, _, _, _, _, _)
SetLocks_KeepExpiry(ls, userId, d, seatIds, i, lockExpiry) ==
    IF i > Len(seatIds) THEN ls
    ELSE LET newLock == [date |-> d, seatId |-> seatIds[i], userId |-> userId,
                         lockExpiry |-> lockExpiry]
             k == FindIndex(ls, LAMBDA l : l.date = d /\ l.seatId = seatIds[i]
                                           /\ l.userId = userId)
             ls2 == IF k # 0 THEN ls ELSE Append(ls, newLock)
         IN  SetLocks_KeepExpiry(ls2, userId, d, seatIds, i + 1, lockExpiry)

RECURSIVE SetLocks(_, _, _, _, _, _)
SetLocks(ls, userId, d, seatIds, i, lockExpiry) ==
    IF i > Len(seatIds) THEN ls
    ELSE LET newLock == [date |-> d, seatId |-> seatIds[i], userId |-> userId,
                         lockExpiry |-> lockExpiry]
             k == FindIndex(ls, LAMBDA l : l.date = d /\ l.seatId = seatIds[i]
                                           /\ l.userId = userId)
             ls2 == IF k # 0 THEN [ls EXCEPT ![k] = newLock] ELSE Append(ls, newLock)
         IN  SetLocks(ls2, userId, d, seatIds, i + 1, lockExpiry)

\* variant: the seats before the first refused one are locked all the same
LockCall_PerSeat(bs, ls, userId, d, seatIds, t0, t1, t2) ==
    LET same(status, msg) == [status |-> status, msg |-> msg,
                              bookings |-> bs, locks |-> ls]
        purged == clearExpiredLocksForDate(ls, d, t1)
        i == FindIndex(seatIds,
                 LAMBDA id : LockSeatError(bs, purged, userId, d, id, t2) # NoError)
    IN
    IF d = Null THEN same(400, Msg(E_DATE, Null))
    ELSE IF validateSeatIds(seatIds) # NoError THEN same(400, validateSeatIds(seatIds))
    ELSE IF isWeekend(d) \/ isHoliday(holidays, d) THEN same(400, Msg(E_LOCKDAY, Null))
    ELSE IF validateBookingPolicy(userId, d, seatIds, t0) # NoError
         THEN same(400, validateBookingPolicy(userId, d, seatIds, t0))
    ELSE IF i # 0
         THEN [status |-> 400, msg |-> LockSeatError(bs, purged, userId, d, seatIds[i], t2),
               bookings |-> bs,
               locks |-> SetLocks(purged, userId, d, SubSeq(seatIds, 1, i - 1), 1,
                                  t2 + LOCK_DURATION_MS)]
    ELSE [status |-> 200, msg |-> Msg("Seats locked", Null), bookings |-> bs,
          locks |-> SetLocks(purged, userId, d, seatIds, 1, t2 + LOCK_DURATION_MS)]

\* POST /api/lock on the store (bs, ls) of bookings and locks: t0 is the clock
\* read by the policy validation, t1 by the purge of expired locks, t2 by the
\* handler (`now`)
LockCall(bs, ls, userId, d, seatIds, t0, t1, t2) ==
    LET same(status, msg) == [status |-> status, msg |-> msg,
                              bookings |-> bs, locks |-> ls]
        purged == clearExpiredLocksForDate(ls, d, t1)
        i == FindIndex(seatIds,
                 LAMBDA id : LockSeatError(bs, purged, userId, d, id, t2) # NoError)
    IN
    IF d = Null THEN same(400, Msg(E_DATE, Null))
    ELSE IF validateSeatIds(seatIds) # NoError THEN same(400, validateSeatIds(seatIds))
    ELSE IF isWeekend(d) \/ isHoliday(holidays, d) THEN same(400, Msg(E_LOCKDAY, Null))
    ELSE IF validateBookingPolicy(userId, d, seatIds, t0) # NoError
         THEN same(400, validateBookingPolicy(userId, d, seatIds, t0))
    ELSE IF i # 0
         THEN [status |-> 400, msg |-> LockSeatError(bs, purged, userId, d, seatIds[i], t2),
               bookings |-> bs, locks |-> purged]
    ELSE [status |-> 200, msg |-> Msg("Seats locked", Null), bookings |-> bs,
          locks |-> SetLocks(purged, userId, d, seatIds, 1, t2 + LOCK_DURATION_MS)]

\* variant: the confirm does not look for an existing Booking
BookSeatError_IgnoreBookings(bs, ls, userId, d, seatId, now) ==
    LET i == findLock(ls, d, seatId) IN
    IF i = 0 THEN NoError
    ELSE IF ls[i].userId # userId /\ ls[i].lockExpiry > now THEN Msg(E_LOCKED, seatId)
    ELSE IF ls[i].lockExpiry <= now THEN Msg(E_EXPIRED, seatId)
    ELSE NoError

\* variant: the confirm does not look at the locks of other users
BookSeatError_IgnoreLocks(bs, ls, userId, d, seatId, now) ==
    IF findBooking(bs, d, seatId) # 0 THEN Msg(E_BOOKED, seatId) ELSE NoError

\* the check loop of POST /api/book, for one seat
BookSeatError(bs, ls, userId, d, seatId, now) ==
    IF findBooking(bs, d, seatId) # 0 THEN Msg(E_BOOKED, seatId)
    ELSE LET i == findLock(ls, d, seatId) IN
         IF i = 0 THEN NoError
         ELSE IF ls[i].userId # userId /\ ls[i].lockExpiry > now THEN Msg(E_LOCKED, seatId)
         ELSE IF ls[i].lockExpiry <= now THEN Msg(E_EXPIRED, seatId)
         ELSE NoError

\* variant: the confirm leaves the Locks on the seats it books
RECURSIVE PushBookings_KeepLocks(_, _, _, _, _)
PushBookings_KeepLocks(st, userId, d, seatIds, i) ==
    IF i > Len(seatIds) THEN st
    ELSE PushBookings_KeepLocks(
            [bookings |-> Append(st.bookings,
                             [date |-> d, seatId |-> seatIds[i], userId |-> userId]),
             locks |-> st.locks],
            userId, d, seatIds, i + 1)

\* the seatIds.forEach of POST /api/book, from position i on
RECURSIVE PushBookings(_, _, _, _, _)
PushBookings(st, userId, d, seatIds, i) ==
    IF i > Len(seatIds) THEN st
    ELSE PushBookings(
            [bookings |-> Append(st.bookings,
                             [date |-> d, seatId |-> seatIds[i], userId |-> userId]),
             locks |-> SelectSeq(st.locks,
                             LAMBDA l : ~(l.date = d /\ l.seatId = seatIds[i]))],
            userId, d, seatIds, i + 1)

\* variant: each seat is booked as soon as it has passed its own check, so the
\* seats before the first failing one stay booked
BookCall_PerSeat(bs, ls, userId, d, seatIds, t0, t1, t2) ==
    LET same(status, msg) == [status |-> status, msg |-> msg,
                              bookings |-> bs, locks |-> ls]
        purged == clearExpiredLocksForDate(ls, d, t1)
        i == FindIndex(seatIds,
                 LAMBDA id : BookSeatError(bs, purged, userId, d, id, t2) # NoError)
        upto(n) == PushBookings([bookings |-> bs, locks |-> purged],
                                userId, d, SubSeq(seatIds, 1, n), 1)
    IN
    IF d = Null THEN same(400, Msg(E_DATE, Null))
    ELSE IF validateSeatIds(seatIds) # NoError THEN same(400, validateSeatIds(seatIds))
    ELSE IF Len(seatIds) > MAX_SEATS_PER_BOOKING THEN same(400, Msg(E_MAXSEATS, Null))
    ELSE IF validateBookingPolicy(userId, d, seatIds, t0) # NoError
         THEN same(400, validateBookingPolicy(userId, d, seatIds, t0))
    ELSE IF i # 0
         THEN [status |-> 400, msg |-> BookSeatError(bs, purged, userId, d, seatIds[i], t2),
               bookings |-> upto(i - 1).bookings, locks |-> upto(i - 1).locks]
    ELSE [status |-> 200, msg |-> Msg("Booking successful", Null),
          bookings |-> upto(Len(seatIds)).bookings, locks |-> upto(Len(seatIds)).locks]

\* POST /api/book on the store (bs, ls), with the clock reads as in LockCall
BookCall(bs, ls, userId, d, seatIds, t0, t1, t2) ==
    LET same(status, msg) == [status |-> status, msg |-> msg,
                              bookings |-> bs, locks |-> ls]
        purged == clearExpiredLocksForDate(ls, d, t1)
        i == FindIndex(seatIds,
                 LAMBDA id : BookSeatError(bs, purged, userId, d, id, t2) # NoError)
        done == PushBookings([bookings |-> bs, locks |-> purged],
                             userId, d, seatIds, 1)
    IN
    IF d = Null THEN same(400, Msg(E_DATE, Null))
    ELSE IF validateSeatIds(seatIds) # NoError THEN same(400, validateSeatIds(seatIds))
    ELSE IF Len(seatIds) > MAX_SEATS_PER_BOOKING THEN same(400, Msg(E_MAXSEATS, Null))
    ELSE IF validateBookingPolicy(userId, d, seatIds, t0) # NoError
         THEN same(400, validateBookingPolicy(userId, d, seatIds, t0))
    ELSE IF i # 0
         THEN [status |-> 400, msg |-> BookSeatError(bs, purged, userId, d, seatIds[i], t2),
               bookings |-> bs, locks |-> purged]
    ELSE [status |-> 200, msg |-> Msg("Booking successful", Null),
          bookings |-> done.bookings, locks |-> done.locks]

\* variant: a lock is reported whatever its expiry
getSeatStateForDate_NoExpiry(bs, ls, d, t1, t2) ==
    LET view(def) ==
            LET b == findBooking(bs, d, def.seatId)
                l == findLock(ls, d, def.seatId)
            IN  [seatId |-> def.seatId,
                 status |-> IF b # 0 THEN "occupied"
                            ELSE IF l # 0 THEN "locked" ELSE "available",
                 bookedBy |-> IF b # 0 THEN bs[b].userId ELSE NoUser,
                 lockedBy |-> IF b = 0 /\ l # 0 THEN ls[l].userId ELSE NoUser,
                 lockExpiry |-> IF b = 0 /\ l # 0 THEN ls[l].lockExpiry ELSE Null,
                 type |-> def.type,
                 assignedTo |-> def.assignedTo]
    IN  [locks |-> ls,
         seats |-> [i \in 1..Len(seatDefinitions) |-> view(seatDefinitions[i])]]

\* variant: the Booking of a seat is looked up without its date
getSeatStateForDate_AnyDate(bs, ls, d, t1, t2) ==
    LET purged == clearExpiredLocksForDate(ls, d, t1)
        view(def) ==
            LET b == FindIndex(bs, LAMBDA k : k.seatId = def.seatId)
                l == FindIndex(purged, LAMBDA k : k.date = d /\ k.seatId = def.seatId
                                                  /\ k.lockExpiry > t2)
            IN  [seatId |-> def.seatId,
                 status |-> IF b # 0 THEN "occupied"
                            ELSE IF l # 0 THEN "locked" ELSE "available",
                 bookedBy |-> IF b # 0 THEN bs[b].userId ELSE NoUser,
                 lockedBy |-> IF b = 0 /\ l # 0 THEN purged[l].userId ELSE NoUser,
                 lockExpiry |-> IF b = 0 /\ l # 0 THEN purged[l].lockExpiry ELSE Null,
                 type |-> def.type,
                 assignedTo |-> def.assignedTo]
    IN  [locks |-> purged,
         seats |-> [i \in 1..Len(seatDefinitions) |-> view(seatDefinitions[i])]]

\* getSeatStateForDate: t1 is the clock read by the purge, t2 the one read after it
getSeatStateForDate(bs, ls, d, t1, t2) ==
    LET purged == clearExpiredLocksForDate(ls, d, t1)
        view(def) ==
            LET b == findBooking(bs, d, def.seatId)
                l == FindIndex(purged, LAMBDA k : k.date = d /\ k.seatId = def.seatId
                                                  /\ k.lockExpiry > t2)
            IN  [seatId |-> def.seatId,
                 status |-> IF b # 0 THEN "occupied"
                            ELSE IF l # 0 THEN "locked" ELSE "available",
                 bookedBy |-> IF b # 0 THEN bs[b].userId ELSE NoUser,
                 lockedBy |-> IF b = 0 /\ l # 0 THEN purged[l].userId ELSE NoUser,
                 lockExpiry |-> IF b = 0 /\ l # 0 THEN purged[l].lockExpiry ELSE Null,
                 type |-> def.type,
                 assignedTo |-> def.assignedTo]
    IN  [locks |-> purged,
         seats |-> [i \in 1..Len(seatDefinitions) |-> view(seatDefinitions[i])]]

\* variant: the release drops the Locks of every user on the requested seats
UnlockCall_AnyOwner(userId, d, seatIds) ==
    IF d = Null THEN [status |-> 400, msg |-> Msg(E_DATE, Null), locks |-> locks]
    ELSE IF validateSeatIds(seatIds) # NoError
         THEN [status |-> 400, msg |-> validateSeatIds(seatIds), locks |-> locks]
    ELSE [status |-> 200, msg |-> Msg("Seats unlocked", Null),
          locks |-> SelectSeq(locks, LAMBDA l : ~(l.date = d /\ Includes(seatIds, l.seatId)))]

\* POST /api/unlock
UnlockCall(userId, d, seatIds) ==
    IF d = Null THEN [status |-> 400, msg |-> Msg(E_DATE, Null), locks |-> locks]
    ELSE IF validateSeatIds(seatIds) # NoError
         THEN [status |-> 400, msg |-> validateSeatIds(seatIds), locks |-> locks]
    ELSE [status |-> 200, msg |-> Msg("Seats unlocked", Null),
          locks |-> SelectSeq(locks, LAMBDA l : ~(l.date = d /\ Includes(seatIds, l.seatId)
                                                  /\ l.userId = userId))]

\* POST /api/cancel
CancelCall(userId, d, seatIds) ==
    LET same(status, msg) == [status |-> status, msg |-> msg,
                              bookings |-> bookings, locks |-> locks]
        i == FindIndex(seatIds,
                 LAMBDA id : ~Exists(bookings, LAMBDA b : b.date = d /\ b.seatId = id
                                                          /\ b.userId = userId))
    IN
    IF d = Null THEN same(400, Msg(E_DATE, Null))
    ELSE IF validateSeatIds(seatIds) # NoError THEN same(400, validateSeatIds(seatIds))
    \* find() returns the seat id, and `if (invalidSeat)` is false for 0
    ELSE IF i # 0 /\ seatIds[i] # 0 THEN same(400, Msg(E_CANCEL, seatIds[i]))
    ELSE [status |-> 200, msg |-> Msg("Booking cancelled", Null),
          bookings |-> SelectSeq(bookings,
                          LAMBDA b : ~(b.date = d /\ Includes(seatIds, b.seatId)
                                       /\ b.userId = userId)),
          locks |-> SelectSeq(locks,
                          LAMBDA l : ~(l.date = d /\ Includes(seatIds, l.seatId)
                                       /\ l.userId = userId))]

\* variant: the leave is recorded without looking for an existing record
LeaveCall_AlwaysPush(userId, d) ==
    LET user == users[userId] IN
    IF d = Null
    THEN [status |-> 400, msg |-> Msg(E_DATE, Null), leaves |-> leaves,
          users |-> users, bookings |-> bookings]
    ELSE [status |-> 200, msg |-> Msg("Leave recorded for this date", Null),
          leaves |-> Append(leaves, [userId |-> userId, date |-> d,
                                     seatId |-> user.designatedSeatId]),
          users |-> IF user.designatedSeatId # Null
                    THEN [users EXCEPT ![userId].floaterLeaveCount = @ + 1]
                    ELSE users,
          bookings |-> SelectSeq(bookings,
                          LAMBDA b : ~(b.userId = userId /\ b.date = d))]

\* variant: the leave purges the Bookings of the user on every date
LeaveCall_AnyDate(userId, d) ==
    LET user == users[userId]
        existing == Exists(leaves, LAMBDA l : l.userId = userId /\ l.date = d)
    IN
    IF d = Null
    THEN [status |-> 400, msg |-> Msg(E_DATE, Null), leaves |-> leaves,
          users |-> users, bookings |-> bookings]
    ELSE [status |-> 200, msg |-> Msg("Leave recorded for this date", Null),
          leaves |-> IF existing THEN leaves
                     ELSE Append(leaves, [userId |-> userId, date |-> d,
                                          seatId |-> user.designatedSeatId]),
          users |-> IF ~existing /\ user.designatedSeatId # Null
                    THEN [users EXCEPT ![userId].floaterLeaveCount = @ + 1]
                    ELSE users,
          bookings |-> SelectSeq(bookings, LAMBDA b : b.userId # userId)]

\* variant: the leave keeps the Bookings of the user for the date
LeaveCall_KeepBookings(userId, d) ==
    LET user == users[userId]
        existing == Exists(leaves, LAMBDA l : l.userId = userId /\ l.date = d)
    IN
    IF d = Null
    THEN [status |-> 400, msg |-> Msg(E_DATE, Null), leaves |-> leaves,
          users |-> users, bookings |-> bookings]
    ELSE [status |-> 200, msg |-> Msg("Leave recorded for this date", Null),
          leaves |-> IF existing THEN leaves
                     ELSE Append(leaves, [userId |-> userId, date |-> d,
                                          seatId |-> user.designatedSeatId]),
          users |-> IF ~existing /\ user.designatedSeatId # Null
                    THEN [users EXCEPT ![userId].floaterLeaveCount = @ + 1]
                    ELSE users,
          bookings |-> bookings]

\* POST /api/leave
LeaveCall(userId, d) ==
    LET user == users[userId]
        existing == Exists(leaves, LAMBDA l : l.userId = userId /\ l.date = d)
    IN
    IF d = Null
    THEN [status |-> 400, msg |-> Msg(E_DATE, Null), leaves |-> leaves,
          users |-> users, bookings |-> bookings]
    ELSE [status |-> 200, msg |-> Msg("Leave recorded for this date", Null),
          leaves |-> IF existing THEN leaves
                     ELSE Append(leaves, [userId |-> userId, date |-> d,
                                          seatId |-> user.designatedSeatId]),
          users |-> IF ~existing /\ user.designatedSeatId # Null
                    THEN [users EXCEPT ![userId].floaterLeaveCount = @ + 1]
                    ELSE users,
          bookings |-> SelectSeq(bookings,
                          LAMBDA b : ~(b.userId = userId /\ b.date = d))]

\* PATCH /api/user/batch: t is the clock value moment() reads
BatchCall(userId, newBatch, d, t) ==
    LET targetDate == IF d = Null THEN DayOf(t) ELSE d IN
    IF newBatch \notin {"batch1", "batch2"}
    THEN [status |-> 400, msg |-> Msg(E_BATCH, Null), users |-> users]
    ELSE IF Exists(bookings, LAMBDA b : b.userId = userId /\ b.date = targetDate)
    THEN [status |-> 400, msg |-> Msg(E_ACTIVE, Null), users |-> users]
    ELSE [status |-> 200, msg |-> NoError,
          users |-> [users EXCEPT ![userId].batch = newBatch]]

\* bcrypt: compare(p, h) is true exactly when h is a hash of p
hash(password) == <<"bcrypt", password>>
compare(password, passwordHash) == passwordHash = hash(password)

\* email.split('@')[0].replace(/[^a-zA-Z0-9]/g, '').slice(0, 8) || 'user': an
\* email is written without its domain; "c.at" and "cat" have the same prefix
prefix(email) ==
    CASE email = "" -> "user"
      [] email = "c.at" -> "cat"
      [] OTHER -> email

createUserId(email) == prefix(email) \o ToString(Cardinality(DOMAIN users) + 1)

\* POST /api/signup up to `await bcrypt.hash`: the early returns
SignupCheck(name, email, password, batch) ==
    IF name = "" \/ email = "" \/ password = "" \/ batch = ""
    THEN [status |-> 400, msg |-> Msg(E_SIGNUP, Null)]
    ELSE IF batch \notin {"batch1", "batch2"}
    THEN [status |-> 400, msg |-> Msg(E_SIGNUPBATCH, Null)]
    ELSE IF email \in DOMAIN usersByEmail
    THEN [status |-> 409, msg |-> Msg(E_REGISTERED, Null)]
    ELSE [status |-> 200, msg |-> NoError]

\* variant: the record of a new user carries the admin flag
userRecord_Admin(req, designatedSeat) ==
    [email |-> req.email, passwordHash |-> hash(req.password), batch |-> req.batch,
     designatedSeatId |-> designatedSeat, floaterLeaveCount |-> 0, isAdmin |-> TRUE]

\* the record signup stores for a new user
userRecord(req, designatedSeat) ==
    [email |-> req.email, passwordHash |-> hash(req.password), batch |-> req.batch,
     designatedSeatId |-> designatedSeat, floaterLeaveCount |-> 0, isAdmin |-> FALSE]

\* POST /api/signup after the await, for the request req suspended with the
\* userId it had computed
SignupCommit(req) ==
    LET userId == req.userId
        i == IF req.designatedSeatId # Null
             THEN getSeatDefinition(seatDefinitions, req.designatedSeatId) ELSE 0
        user == userRecord(req, IF i = 0 THEN Null ELSE seatDefinitions[i].seatId)
    IN  IF req.designatedSeatId # Null /\ i = 0
        THEN [status |-> 400, msg |-> Msg(E_SIGNUPSEAT, Null), userId |-> userId,
              users |-> users, usersByEmail |-> usersByEmail,
              seatDefinitions |-> seatDefinitions]
        ELSE [status |-> 200, msg |-> NoError, userId |-> userId,
              seatDefinitions |->
                  IF i = 0 THEN seatDefinitions
                  ELSE [seatDefinitions EXCEPT ![i].type = "designated",
                                               ![i].assignedTo = userId],
              users |-> [u \in DOMAIN users \cup {userId} |->
                            IF u = userId THEN user ELSE users[u]],
              usersByEmail |-> [e \in DOMAIN usersByEmail \cup {req.email} |->
                                   IF e = req.email THEN userId ELSE usersByEmail[e]]]

\* POST /api/signup when nothing is served while the hash is computed
SignupCall(name, email, password, batch, designatedSeatId) ==
    LET c == SignupCheck(name, email, password, batch) IN
    IF c.status # 200
    THEN [status |-> c.status, msg |-> c.msg, userId |-> NoUser, users |-> users,
          usersByEmail |-> usersByEmail, seatDefinitions |-> seatDefinitions]
    ELSE SignupCommit([email |-> email, password |-> password, batch |-> batch,
                       designatedSeatId |-> designatedSeatId,
                       userId |-> createUserId(email)])

\* POST /api/login; the session store is not part of the state: a caller of
\* the other operations is named by the userId the token resolves to
LoginCall(email, password) ==
    IF email = "" \/ password = ""
    THEN [status |-> 400, msg |-> Msg(E_LOGIN, Null), userId |-> NoUser]
    ELSE IF email \notin DOMAIN usersByEmail
    THEN [status |-> 401, msg |-> Msg(E_CREDENTIALS, Null), userId |-> NoUser]
    ELSE LET userId == usersByEmail[email] IN
         IF ~compare(password, users[userId].passwordHash)
         THEN [status |-> 401, msg |-> Msg(E_CREDENTIALS, Null), userId |-> userId]
         ELSE [status |-> 200, msg |-> NoError, userId |-> userId]

\* variant: the middleware lets every authenticated caller through
adminMiddleware_AllowAll(userId) == TRUE

\* adminMiddleware behind authMiddleware: req.user is set
adminMiddleware(userId) == users[userId].isAdmin

AdminOps == {"reset", "bookings", "force-cancel", "batch-schedule", "seat-type",
             "assign-seat", "holidays", "leaves", "users"}

\* the stores as a handler leaves them when it changes nothing
Stores(status, msg) ==
    [status |-> status, msg |-> msg, users |-> users,
     seatDefinitions |-> seatDefinitions, bookings |-> bookings, locks |-> locks,
     leaves |-> leaves, batchSchedule |-> batchSchedule, holidays |-> holidays]

NoSchedule == [none |-> TRUE]

\* the body of the admin routes; `a` is the request body
AdminBody(op, a) ==
    CASE op = "reset" ->
           [Stores(200, NoError) EXCEPT !.seatDefinitions = initSeatDefinitions,
                                        !.bookings = <<>>, !.locks = <<>>,
                                        !.leaves = <<>>,
                                        !.batchSchedule = DEFAULT_BATCH_SCHEDULE,
                                        !.holidays = {}]
      [] op = "force-cancel" ->
           IF a.date = Null \/ a.seatId = Null \/ a.seatId = 0
           THEN Stores(400, Msg(E_FORCE, Null))
           ELSE [Stores(200, NoError) EXCEPT
                   !.bookings = SelectSeq(bookings,
                       LAMBDA b : ~(b.date = a.date /\ b.seatId = a.seatId)),
                   !.locks = SelectSeq(locks,
                       LAMBDA l : ~(l.date = a.date /\ l.seatId = a.seatId))]
      [] op = "batch-schedule" ->
           IF a.schedule = NoSchedule THEN Stores(400, Msg(E_SCHEDULE, Null))
           ELSE [Stores(200, NoError) EXCEPT !.batchSchedule = a.schedule]
      [] op = "seat-type" ->
           IF a.seatId = Null \/ a.seatId = 0 \/ a.type = ""
           THEN Stores(400, Msg(E_SEATTYPE, Null))
           ELSE IF a.type \notin {"designated", "floater"}
           THEN Stores(400, Msg(E_TYPE, Null))
           ELSE LET i == getSeatDefinition(seatDefinitions, a.seatId) IN
                IF i = 0 THEN Stores(404, Msg(E_SEAT404, Null))
                ELSE [Stores(200, NoError) EXCEPT
                        !.seatDefinitions =
                            [seatDefinitions EXCEPT
                               ![i].type = a.type,
                               ![i].assignedTo = IF a.type = "floater" THEN NoUser ELSE @]]
      [] op = "assign-seat" ->
           IF a.target = "" \/ a.seatId = Null \/ a.seatId = 0
           THEN Stores(400, Msg(E_ASSIGN, Null))
           ELSE LET i == getSeatDefinition(seatDefinitions, a.seatId) IN
                IF i = 0 THEN Stores(404, Msg(E_SEAT404, Null))
                ELSE IF a.target \notin DOMAIN users
                THEN Stores(404, Msg(E_USER404, Null))
                ELSE [Stores(200, NoError) EXCEPT
                        !.seatDefinitions =
                            [seatDefinitions EXCEPT ![i].type = "designated",
                                                    ![i].assignedTo = a.target],
                        !.users = [users EXCEPT ![a.target].designatedSeatId = a.seatId]]
      [] op = "holidays" ->
           IF a.date = Null THEN Stores(400, Msg(E_DATE, Null))
           ELSE [Stores(200, NoError) EXCEPT
                   !.holidays = IF a.isHoliday = FALSE THEN holidays \ {a.date}
                                ELSE holidays \cup {a.date}]
      [] OTHER -> Stores(200, NoError)

\* an admin route called by the authenticated user userId
AdminCall(op, userId, a) ==
    IF ~adminMiddleware(userId) THEN Stores(403, Msg(E_ADMIN, Null))
    ELSE AdminBody(op, a)

(******************************** state ************************************)

\* the request served last and the status and message answered
Response(op, userId, d, seatIds, status, msg) ==
    [op |-> op, user |-> userId, date |-> d, seatIds |-> seatIds,
     status |-> status, msg |-> msg]

\* the server after start-up and the signups of ann (batch1, designated seat 1)
\* and bob (batch2, no designated seat)
Init ==
    /\ users = [u \in UserIds |->
                  IF u = "ann1"
                  THEN [email |-> "ann", passwordHash |-> hash("pw"),
                        batch |-> "batch1", designatedSeatId |-> 1,
                        floaterLeaveCount |-> 0, isAdmin |-> FALSE]
                  ELSE [email |-> "bob", passwordHash |-> hash("pw"),
                        batch |-> "batch2", designatedSeatId |-> Null,
                        floaterLeaveCount |-> 0, isAdmin |-> FALSE]]
    /\ usersByEmail = [e \in {"ann", "bob"} |-> IF e = "ann" THEN "ann1" ELSE "bob2"]
    /\ inflight = <<>>
    /\ seatDefinitions = [initSeatDefinitions EXCEPT ![1].assignedTo = "ann1"]
    /\ bookings = <<>>
    /\ locks = <<>>
    /\ leaves = <<>>
    /\ batchSchedule = DEFAULT_BATCH_SCHEDULE
    /\ holidays = {}
    /\ clock = 0
    /\ last = Response("start", NoUser, Null, <<>>, 200, NoError)

\* the values three successive reads of the wall clock inside one handler can
\* return: a handler is far shorter than a minute, so the clock passes at most
\* one minute boundary while it runs
ReadsFrom(c) ==
    {<<c, c, c>>} \cup
    (IF c < MaxClock THEN {<<c, c, c + 1>>, <<c, c + 1, c + 1>>} ELSE {})

ClockReads == ReadsFrom(clock)

\* time passes between two requests
Tick ==
    /\ clock < MaxClock
    /\ clock' = clock + 1
    /\ UNCHANGED <<usersByEmail, inflight, users, seatDefinitions, bookings, locks, leaves, batchSchedule,
                   holidays, last>>

\* GET /api/seats
GetSeats(D) ==
    \E u \in UserIds, d \in D, t \in ClockReads :
        IF d = Null
        THEN /\ last' = Response("seats", u, d, <<>>, 400, Msg(E_DATE, Null))
             /\ UNCHANGED <<usersByEmail, inflight, users, seatDefinitions, bookings, locks, leaves,
                            batchSchedule, holidays, clock>>
        ELSE \E r \in {getSeatStateForDate(bookings, locks, d, t[2], t[3])} :
             /\ locks' = r.locks
             /\ clock' = t[3]
             /\ last' = Response("seats", u, d, <<>>, 200, buildPolicySummary(u, d))
             /\ UNCHANGED <<usersByEmail, inflight, users, seatDefinitions, bookings, leaves,
                            batchSchedule, holidays>>

\* POST /api/lock
Lock(D, L) ==
    \E u \in UserIds, d \in D, seatIds \in L, t \in ClockReads :
        \E r \in {LockCall(bookings, locks, u, d, seatIds, t[1], t[2], t[3])} :
        /\ Len(r.locks) <= MaxLocks
        /\ locks' = r.locks
        /\ clock' = t[3]
        /\ last' = Response("lock", u, d, seatIds, r.status, r.msg)
        /\ UNCHANGED <<usersByEmail, inflight, users, seatDefinitions, bookings, leaves, batchSchedule, holidays>>

\* POST /api/unlock
Unlock(D, L) ==
    \E u \in UserIds, d \in D, seatIds \in L :
        \E r \in {UnlockCall(u, d, seatIds)} :
        /\ locks' = r.locks
        /\ last' = Response("unlock", u, d, seatIds, r.status, r.msg)
        /\ UNCHANGED <<usersByEmail, inflight, users, seatDefinitions, bookings, leaves, batchSchedule,
                       holidays, clock>>

\* POST /api/book
Book(D, L) ==
    \E u \in UserIds, d \in D, seatIds \in L, t \in ClockReads :
        \E r \in {BookCall(bookings, locks, u, d, seatIds, t[1], t[2], t[3])} :
        /\ Len(r.bookings) <= MaxBookings
        /\ bookings' = r.bookings
        /\ locks' = r.locks
        /\ clock' = t[3]
        /\ last' = Response("book", u, d, seatIds, r.status, r.msg)
        /\ UNCHANGED <<usersByEmail, inflight, users, seatDefinitions, leaves, batchSchedule, holidays>>

\* POST /api/cancel
Cancel(D, L) ==
    \E u \in UserIds, d \in D, seatIds \in L :
        \E r \in {CancelCall(u, d, seatIds)} :
        /\ bookings' = r.bookings
        /\ locks' = r.locks
        /\ last' = Response("cancel", u, d, seatIds, r.status, r.msg)
        /\ UNCHANGED <<usersByEmail, inflight, users, seatDefinitions, leaves, batchSchedule, holidays, clock>>

\* POST /api/leave
MarkLeave(D) ==
    \E u \in UserIds, d \in D :
        \E r \in {LeaveCall(u, d)} :
        /\ Len(r.leaves) <= MaxLeaves
        /\ leaves' = r.leaves
        /\ users' = r.users
        /\ bookings' = r.bookings
        /\ last' = Response("leave", u, d, <<>>, r.status, r.msg)
        /\ UNCHANGED <<usersByEmail, inflight, seatDefinitions, locks, batchSchedule, holidays, clock>>

\* PATCH /api/user/batch
SwitchBatch(D) ==
    \E u \in UserIds, b \in {"batch1", "batch2", "batch3"}, d \in D :
        \E r \in {BatchCall(u, b, d, clock)} :
        /\ users' = r.users
        /\ last' = Response("batch", u, d, <<>>, r.status, r.msg)
        /\ UNCHANGED <<usersByEmail, inflight, seatDefinitions, bookings, locks, leaves, batchSchedule,
                       holidays, clock>>

\* the request bodies of signup and login: <<name, email, password, batch,
\* designatedSeatId>> with one body per early return and three accepted ones
Emails == {"", "ann", "cat"}
Passwords == {"", "pw", "bad"}
SignupBodies ==
    {<<"", "cat", "pw", "batch1", Null>>,
     <<"n", "cat", "pw", "batch3", Null>>,
     <<"n", "ann", "pw", "batch1", Null>>,
     <<"n", "cat", "pw", "batch1", 0>>,
     <<"n", "cat", "pw", "batch1", TotalSeats + 1>>,
     <<"n", "cat", "pw", "batch1", Null>>}
    \cup {<<"n", "cat", "pw", "batch1", s>> : s \in Seats}

\* POST /api/signup, served without another request in between
Signup ==
    \E b \in SignupBodies :
        \E r \in {SignupCall(b[1], b[2], b[3], b[4], b[5])} :
        /\ Cardinality(DOMAIN r.users) <= MaxUsers
        /\ users' = r.users
        /\ usersByEmail' = r.usersByEmail
        /\ seatDefinitions' = r.seatDefinitions
        /\ last' = Response("signup", r.userId, Null, <<>>, r.status, r.msg)
        /\ UNCHANGED <<inflight, bookings, locks, leaves, batchSchedule, holidays, clock>>

\* the signups that may be in flight together: the same email twice, or two
\* emails with the same prefix
SignupEmails == {"ann", "cat", "c.at"}
SignupSeats == {Null, TotalSeats + 1}

\* POST /api/signup up to the await: an early return, or the request is
\* suspended with the userId computed from the user count of this moment
SignupStart ==
    \E email \in SignupEmails, seatId \in SignupSeats :
        \E c \in {SignupCheck("n", email, "pw", "batch1")} :
        IF c.status # 200
        THEN /\ last' = Response("signup", NoUser, Null, <<>>, c.status, c.msg)
             /\ UNCHANGED <<users, usersByEmail, inflight, seatDefinitions, bookings,
                            locks, leaves, batchSchedule, holidays, clock>>
        ELSE /\ Len(inflight) < MaxInflight
             /\ inflight' = Append(inflight,
                                [email |-> email, password |-> "pw", batch |-> "batch1",
                                 designatedSeatId |-> seatId,
                                 userId |-> createUserId(email)])
             /\ UNCHANGED <<users, usersByEmail, seatDefinitions, bookings, locks, leaves,
                            batchSchedule, holidays, clock, last>>

\* POST /api/signup from the await on, for any of the suspended requests
SignupFinish ==
    \E k \in 1..Len(inflight) :
        \E r \in {SignupCommit(inflight[k])} :
        /\ Cardinality(DOMAIN r.users) <= MaxUsers
        /\ inflight' = SubSeq(inflight, 1, k - 1) \o SubSeq(inflight, k + 1, Len(inflight))
        /\ users' = r.users
        /\ usersByEmail' = r.usersByEmail
        /\ seatDefinitions' = r.seatDefinitions
        /\ last' = Response("signup", r.userId, Null, <<>>, r.status, r.msg)
        /\ UNCHANGED <<bookings, locks, leaves, batchSchedule, holidays, clock>>

\* POST /api/login
Login ==
    \E email \in Emails, password \in Passwords :
        \E r \in {LoginCall(email, password)} :
        /\ last' = Response("login", r.userId, Null, <<>>, r.status, r.msg)
        /\ UNCHANGED <<usersByEmail, inflight, users, seatDefinitions, bookings, locks, leaves,
                       batchSchedule, holidays, clock>>

\* the request bodies of the admin routes
NoArgs ==
    [date |-> Null, seatId |-> Null, type |-> "", target |-> "",
     schedule |-> NoSchedule, isHoliday |-> TRUE]

AdminArgs(op) ==
    CASE op = "force-cancel" ->
           {[NoArgs EXCEPT !.date = d, !.seatId = s] : d \in {Null, Today}, s \in {0, 1}}
      [] op = "batch-schedule" ->
           {NoArgs, [NoArgs EXCEPT !.schedule =
                        [batch1 |-> DEFAULT_BATCH_SCHEDULE.batch2,
                         batch2 |-> DEFAULT_BATCH_SCHEDULE.batch1]]}
      [] op = "seat-type" ->
           {[NoArgs EXCEPT !.seatId = s, !.type = t] :
                s \in {0, 1, TotalSeats + 1}, t \in {"", "floater", "bogus"}}
      [] op = "assign-seat" ->
           {[NoArgs EXCEPT !.seatId = s, !.target = u] :
                s \in {0, TotalSeats, TotalSeats + 1}, u \in {"", "bob2", "zed9"}}
      [] op = "holidays" ->
           {[NoArgs EXCEPT !.date = d, !.isHoliday = h] :
                d \in {Null, Today}, h \in BOOLEAN}
      [] OTHER -> {NoArgs}

\* the routes under /api/admin
Admin ==
    \E u \in DOMAIN users, op \in AdminOps :
        \E a \in AdminArgs(op) :
        \E r \in {AdminCall(op, u, a)} :
        /\ users' = r.users
        /\ seatDefinitions' = r.seatDefinitions
        /\ bookings' = r.bookings
        /\ locks' = r.locks
        /\ leaves' = r.leaves
        /\ batchSchedule' = r.batchSchedule
        /\ holidays' = r.holidays
        /\ last' = Response(op, u, a.date, <<>>, r.status, r.msg)
        /\ UNCHANGED <<usersByEmail, inflight, clock>>

CoreDates == {Today}
CoreLists == UNION {[1..n -> Seats] : n \in 1..MaxLen}

Next ==
    \/ Tick
    \/ GetSeats(CoreDates)
    \/ Lock(CoreDates, CoreLists)
    \/ Unlock(CoreDates, CoreLists)
    \/ Book(CoreDates, CoreLists)
    \/ Cancel(CoreDates, CoreLists)

Spec == Init /\ [][Next]_vars

\* the requests of the policy scenarios: leave, and single-seat acquires and
\* confirms for today (Wed), tomorrow (Thu) and Saturday, while the clock
\* passes 15:00
PolicyDates == {Today, Today + 1}
PolicyLists == [1..1 -> Seats]

PolicyNext ==
    \/ Tick
    \/ MarkLeave(PolicyDates)
    \/ Lock(Dates, PolicyLists) /\ Len(locks') <= PolicyMaxLocks
    \/ Book(Dates, PolicyLists)

PolicySpec == Init /\ [][PolicyNext]_vars

\* the requests of the size scenarios: single-seat acquires and confirms, and
\* confirms of lists of 5 and 6 seat ids, for today
SizeLists ==
    {[i \in 1..n |-> IF i % 2 = 1 THEN a ELSE b] :
        n \in MAX_SEATS_PER_BOOKING..(MAX_SEATS_PER_BOOKING + 1),
        a \in SeatIdInputs, b \in SeatIdInputs}

SizeNext ==
    \/ Tick
    \/ Lock(CoreDates, PolicyLists)
    \/ Book(CoreDates, PolicyLists \cup {l \in SizeLists : \A k \in 1..Len(l) : l[k] \in Seats})

SizeSpec == Init /\ [][SizeNext]_vars

\* The attendance cycle: bookings far ahead are allowed, and the seat query
\* takes any date.  Week53Monday is 2026-12-28, the Monday of ISO week 53.
Week53Monday == 1092
CalBookDates == {Today, Week53Monday + 7}
CalDates == {Today, Today + 7, Today + 14,
             Week53Monday, Week53Monday + 7, Week53Monday + 14}
CalRange == ((Today - 2)..(Today + 25)) \cup ((Week53Monday - 7)..(Week53Monday + 20))

CalendarNext ==
    \/ GetSeats(CalDates)
    \/ Book(CalBookDates, PolicyLists)

CalendarSpec == Init /\ [][CalendarNext]_vars

\* every operation open to a caller who is not an admin, for today and the
\* seat that is designated at start-up
CatalogLists == {<<1>>}

CatalogNext ==
    \/ Signup
    \/ Login
    \/ GetSeats(CoreDates)
    \/ Lock(CoreDates, CatalogLists)
    \/ Unlock(CoreDates, CatalogLists)
    \/ Book(CoreDates, CatalogLists)
    \/ Cancel(CoreDates, CatalogLists)
    \/ MarkLeave(CoreDates)
    \/ SwitchBatch(CoreDates)

CatalogSpec == Init /\ [][CatalogNext]_vars

\* the admin routes called while the stores fill
AdminNext ==
    \/ Admin
    \/ Lock(CoreDates, PolicyLists)
    \/ Book(CoreDates, PolicyLists)
    \/ MarkLeave(CoreDates)

AdminSpec == Init /\ [][AdminNext]_vars

\* signups that overlap at the await, and logins
SignupNext ==
    \/ SignupStart
    \/ SignupFinish
    \/ Login

SignupSpec == Init /\ [][SignupNext]_vars

\* accounts are created and every account calls the admin routes
RoleNext ==
    \/ SignupStart
    \/ SignupFinish
    \/ Admin
    \/ Book(CoreDates, CatalogLists)

RoleSpec == Init /\ [][RoleNext]_vars

(******************************* claims ************************************)

\* the seat is free on date d: no Booking, and no Lock that is still live
Free(d, seatId) ==
    /\ findBooking(bookings, d, seatId) = 0
    /\ ~Exists(locks, LAMBDA l : l.date = d /\ l.seatId = seatId /\ l.lockExpiry > clock)

\* validation and policy let the confirm / the acquire through
PassesBookPolicy(userId, d, seatIds, t) ==
    /\ validateSeatIds(seatIds) = NoError
    /\ Len(seatIds) <= MAX_SEATS_PER_BOOKING
    /\ validateBookingPolicy(userId, d, seatIds, t) = NoError

PassesLockPolicy(userId, d, seatIds, t) ==
    /\ validateSeatIds(seatIds) = NoError
    /\ ~(isWeekend(d) \/ isHoliday(holidays, d))
    /\ validateBookingPolicy(userId, d, seatIds, t) = NoError

\* C1: for every (date, seatId) there is at most one Booking record.
C1_OneBookingPerSeat ==
    \A i, j \in 1..Len(bookings) :
        (bookings[i].date = bookings[j].date /\ bookings[i].seatId = bookings[j].seatId)
            => i = j

\* C2: when two different users confirm requests that share a seat, all the
\* requested seats being free and both requests passing validation and policy,
\* the confirm served first succeeds and the one served second is rejected with
\* "already booked" on the first seat it shares with the other; this for both
\* orders and for every way the clock advances during and between the calls.
C2_TwoConfirmsOneSuccess ==
    \A d \in CoreDates, la \in CoreLists, lb \in CoreLists :
        ( /\ \E i \in 1..Len(la) : Includes(lb, la[i])
          /\ \A i \in 1..Len(la) : Free(d, la[i])
          /\ \A i \in 1..Len(lb) : Free(d, lb[i]) )
        =>
        \A a \in UserIds : \A b \in UserIds \ {a} :
            \A ta \in ClockReads :
                \A tb \in ReadsFrom(ta[3]) :
                ( /\ PassesBookPolicy(a, d, la, ta[1])
                  /\ PassesBookPolicy(b, d, lb, tb[1]) )
                =>
                LET r1 == BookCall(bookings, locks, a, d, la, ta[1], ta[2], ta[3])
                    r2 == BookCall(r1.bookings, r1.locks, b, d, lb, tb[1], tb[2], tb[3])
                    k == FindIndex(lb, LAMBDA id : Includes(la, id))
                IN  /\ r1.status = 200
                    /\ r2.status = 400
                    /\ r2.msg = Msg(E_BOOKED, lb[k])
                    /\ r2.bookings = r1.bookings

\* a confirm has just been rejected because another user holds the Booking
C2_Witness ==
    /\ last.op = "book"
    /\ last.status = 400
    /\ last.msg.text = E_BOOKED
    /\ Exists(bookings, LAMBDA b : b.date = last.date /\ b.seatId = last.msg.seat
                                   /\ b.userId # last.user)

\* the call of kind op ("lock" or "book") on the store (bs, ls)
ClaimCall(op, bs, ls, userId, d, seatIds, t) ==
    IF op = "lock" THEN LockCall(bs, ls, userId, d, seatIds, t[1], t[2], t[3])
    ELSE BookCall(bs, ls, userId, d, seatIds, t[1], t[2], t[3])

\* C3: no seat is live-locked by one user while it is booked or live-locked by
\* another; and of an acquire followed at once by an acquire or a confirm of
\* another user on the same free seat (or a confirm followed by an acquire),
\* at most one succeeds: the first does, the second is rejected.
C3_NoTwoClaims ==
    /\ \A i \in 1..Len(locks) :
          locks[i].lockExpiry > clock =>
             /\ ~Exists(bookings, LAMBDA b : b.date = locks[i].date
                                           /\ b.seatId = locks[i].seatId
                                           /\ b.userId # locks[i].userId)
             /\ ~Exists(locks, LAMBDA l : l.date = locks[i].date
                                        /\ l.seatId = locks[i].seatId
                                        /\ l.userId # locks[i].userId
                                        /\ l.lockExpiry > clock)
    /\ \A d \in CoreDates : \A s \in {x \in Seats : Free(d, x)} :
        \A a \in UserIds : \A b \in UserIds \ {a} :
            \A opa \in {"lock", "book"}, opb \in {"lock", "book"} :
                \A ta \in ClockReads :
                    \A tb \in ReadsFrom(ta[3]) :
                    ( /\ (opa = "lock" \/ opb = "lock")
                      /\ IF opa = "lock" THEN PassesLockPolicy(a, d, <<s>>, ta[1])
                         ELSE PassesBookPolicy(a, d, <<s>>, ta[1]) )
                    =>
                    LET r1 == ClaimCall(opa, bookings, locks, a, d, <<s>>, ta)
                        r2 == ClaimCall(opb, r1.bookings, r1.locks, b, d, <<s>>, tb)
                    IN  /\ r1.status = 200
                        /\ r2.status = 400
                        /\ r2.bookings = r1.bookings
                        /\ \A i \in 1..Len(r2.locks) : r2.locks[i].userId # b
                                                       \/ r2.locks[i].seatId # s

\* a confirm has just been rejected because another user holds a live Lock
C3_Witness ==
    /\ last.op = "book"
    /\ last.status = 400
    /\ last.msg.text = E_LOCKED
    /\ Exists(locks, LAMBDA l : l.date = last.date /\ l.seatId = last.msg.seat
                                /\ l.userId # last.user /\ l.lockExpiry > clock)

\* the Lock records on (d, seatId)
LocksOn(ls, d, seatId) ==
    {i \in 1..Len(ls) : ls[i].date = d /\ ls[i].seatId = seatId}

\* C4 as stated: a confirm that is rejected creates no Booking and deletes no
\* Lock record on any requested seat.
C4_RejectedConfirmDeletesNoLock ==
    \A u \in UserIds, d \in CoreDates, l \in CoreLists, t \in ClockReads :
        LET r == BookCall(bookings, locks, u, d, l, t[1], t[2], t[3]) IN
        r.status # 200 =>
            /\ r.bookings = bookings
            /\ \A k \in 1..Len(l) : \A i \in LocksOn(locks, d, l[k]) :
                  Includes(r.locks, locks[i])

\* C4 amended: a confirm that is rejected, for whatever reason, leaves the Bookings as
\* they were, creates no Lock, and keeps every Lock that had not expired when
\* the call purged the expired ones.
C4_ConfirmAllOrNothing ==
    \A u \in UserIds, d \in CoreDates, l \in CoreLists, t \in ClockReads :
        LET r == BookCall(bookings, locks, u, d, l, t[1], t[2], t[3]) IN
        r.status # 200 =>
            /\ r.bookings = bookings
            /\ \A i \in 1..Len(r.locks) : Includes(locks, r.locks[i])
            /\ \A i \in 1..Len(locks) :
                  (locks[i].date # d \/ locks[i].lockExpiry > t[2])
                      => Includes(r.locks, locks[i])

\* a confirm of [A, B] has just been rejected because B is booked by another
\* user, and A is still free and the caller holds no Booking
C4_Witness ==
    /\ last.op = "book"
    /\ last.status = 400
    /\ Len(last.seatIds) = 2
    /\ last.seatIds[1] # last.seatIds[2]
    /\ last.msg = Msg(E_BOOKED, last.seatIds[2])
    /\ Free(last.date, last.seatIds[1])
    /\ ~Exists(bookings, LAMBDA b : b.userId = last.user)
    /\ Exists(bookings, LAMBDA b : b.seatId = last.seatIds[2] /\ b.userId # last.user)

\* C5: while a user holds a Lock that is live at the time the call reads, every
\* acquire and every confirm of another user on a list holding that seat is
\* rejected and creates no Booking and no Lock.
C5_LockExclusive ==
    \A i \in 1..Len(locks) :
        \A b \in UserIds \ {locks[i].userId} :
            \A l \in {x \in CoreLists : Includes(x, locks[i].seatId)} :
                \A t \in {x \in ClockReads : locks[i].lockExpiry > x[3]} :
                    \A op \in {"lock", "book"} :
                        LET r == ClaimCall(op, bookings, locks, b, locks[i].date, l, t) IN
                        /\ r.status = 400
                        /\ r.bookings = bookings
                        /\ \A j \in 1..Len(r.locks) : Includes(locks, r.locks[j])

\* an acquire has just been rejected because another user holds a live Lock
C5_Witness ==
    /\ last.op = "lock"
    /\ last.status = 400
    /\ last.msg.text = E_LOCKED
    /\ Exists(locks, LAMBDA l : l.date = last.date /\ l.seatId = last.msg.seat
                                /\ l.userId # last.user /\ l.lockExpiry > clock)

\* C6: for every (date, seatId) at most one Lock record has its expiry after the
\* current time.
C6_OneLiveLockPerSeat ==
    \A i, j \in 1..Len(locks) :
        ( /\ locks[i].date = locks[j].date
          /\ locks[i].seatId = locks[j].seatId
          /\ locks[i].lockExpiry > clock
          /\ locks[j].lockExpiry > clock )
        => i = j

\* a seat carries two Lock records, an expired one and a live one
C6_Witness ==
    \E i, j \in 1..Len(locks) :
        /\ locks[i].date = locks[j].date
        /\ locks[i].seatId = locks[j].seatId
        /\ locks[i].lockExpiry <= clock
        /\ locks[j].lockExpiry > clock
        /\ last.op = "lock"
        /\ last.status = 200

\* C7: the projection does not report 'locked', nor a lockedBy or lockExpiry,
\* for a seat all of whose Lock records have expired at the time of the
\* projection; without a Booking such a seat is 'available'.
C7_ExpiredLockNotReported ==
    \A d \in Dates, t \in ClockReads :
        LET r == getSeatStateForDate(bookings, locks, d, t[2], t[3]) IN
        \A k \in 1..Len(r.seats) :
            (\A i \in LocksOn(locks, d, r.seats[k].seatId) : locks[i].lockExpiry <= t[3])
            =>
            /\ r.seats[k].status # "locked"
            /\ r.seats[k].lockedBy = NoUser
            /\ r.seats[k].lockExpiry = Null
            /\ findBooking(bookings, d, r.seats[k].seatId) = 0
                  => r.seats[k].status = "available"

\* a projection has just been served while the store still holds an expired
\* Lock on a seat without Booking, and the seat is projected 'available'
C7_Witness ==
    /\ last.op = "seats"
    /\ last.status = 200
    /\ \E i \in 1..Len(locks) :
          /\ locks[i].date = last.date
          /\ locks[i].lockExpiry <= clock
          /\ LocksOn(locks, last.date, locks[i].seatId) = {i}
          /\ findBooking(bookings, last.date, locks[i].seatId) = 0
          /\ getSeatStateForDate(bookings, locks, last.date, clock, clock)
                 .seats[locks[i].seatId].status = "available"

\* the store without the Lock records that have expired at time t
WithoutExpired(ls, t) == SelectSeq(ls, LAMBDA l : l.lockExpiry > t)

\* C8: a Lock whose expiry is not after the time of the call never blocks an
\* acquire or a confirm: the call is answered as if that Lock did not exist.
C8_ExpiredLockNeverBlocks ==
    \A u \in UserIds, d \in CoreDates, l \in CoreLists, t \in ClockReads :
        \A op \in {"lock", "book"} :
            LET r == ClaimCall(op, bookings, locks, u, d, l, t)
                q == ClaimCall(op, bookings, WithoutExpired(locks, t[3]), u, d, l, t)
            IN  r.status = q.status /\ r.msg = q.msg

\* C9 as stated: a confirm on a seat that carries an expired Lock is rejected.
C9_ExpiredLockRejectsConfirm ==
    \A u \in UserIds, d \in CoreDates, l \in CoreLists, t \in ClockReads :
        (\E i \in 1..Len(locks) :
            /\ locks[i].date = d
            /\ Includes(l, locks[i].seatId)
            /\ locks[i].lockExpiry <= t[3])
        => BookCall(bookings, locks, u, d, l, t[1], t[2], t[3]).status = 400

\* C9 amended: a confirm is rejected with "lock has expired" only for a Lock on
\* a requested seat that outlived the purge at the start of the call and whose
\* expiry is not after the time read for the checks; when a request passes
\* validation and policy and has no booked seat, such a Lock makes it fail,
\* whereas Locks that had expired at the purge do not: the confirm then succeeds
\* without a new acquire.
C9_ExpiredRejectsOnlyWithinCall ==
    \A u \in UserIds, d \in CoreDates, l \in CoreLists, t \in ClockReads :
        LET r == BookCall(bookings, locks, u, d, l, t[1], t[2], t[3])
            onList == {i \in 1..Len(locks) : locks[i].date = d /\ Includes(l, locks[i].seatId)}
            clear == /\ PassesBookPolicy(u, d, l, t[1])
                     /\ \A k \in 1..Len(l) : findBooking(bookings, d, l[k]) = 0
        IN  /\ r.msg.text = E_EXPIRED =>
                \E i \in onList : /\ locks[i].seatId = r.msg.seat
                                  /\ locks[i].lockExpiry > t[2]
                                  /\ locks[i].lockExpiry <= t[3]
            /\ (clear /\ \E i \in onList : /\ locks[i].lockExpiry > t[2]
                                           /\ locks[i].lockExpiry <= t[3])
                   => r.status = 400
            /\ (clear /\ \A i \in onList : locks[i].lockExpiry <= t[2])
                   => r.status = 200

\* a confirm has just been rejected with "lock has expired", and the Lock is
\* still in the store
C9_Witness ==
    /\ last.op = "book"
    /\ last.status = 400
    /\ last.msg.text = E_EXPIRED
    /\ \E i \in LocksOn(locks, last.date, last.msg.seat) : locks[i].lockExpiry <= clock

\* C10: the projection gives every catalog seat one status: 'occupied' exactly
\* when the date has a Booking of the seat (bookedBy its user), otherwise
\* 'locked' exactly when the seat has a Lock that is live at the time of the
\* projection (lockedBy and lockExpiry those of such a Lock), otherwise
\* 'available'.
C10_ProjectionStatus ==
    \A d \in Dates, t \in ClockReads :
        LET r == getSeatStateForDate(bookings, locks, d, t[2], t[3]) IN
        /\ Len(r.seats) = Len(seatDefinitions)
        /\ \A k \in 1..Len(r.seats) :
            LET v == r.seats[k]
                booked == {i \in 1..Len(bookings) :
                              bookings[i].date = d /\ bookings[i].seatId = v.seatId}
                live == {i \in LocksOn(locks, d, v.seatId) : locks[i].lockExpiry > t[3]}
            IN  /\ v.seatId = seatDefinitions[k].seatId
                /\ v.status \in {"available", "locked", "occupied"}
                /\ v.status = "occupied" <=> booked # {}
                /\ v.status = "occupied" =>
                      /\ \E i \in booked : bookings[i].userId = v.bookedBy
                      /\ v.lockedBy = NoUser
                /\ v.status = "locked" <=> (booked = {} /\ live # {})
                /\ v.status = "locked" =>
                      /\ \E i \in live : /\ locks[i].userId = v.lockedBy
                                         /\ locks[i].lockExpiry = v.lockExpiry
                      /\ v.bookedBy = NoUser
                /\ v.status = "available" <=> (booked = {} /\ live = {})

\* a projection has just been served for a date on which one seat is booked and
\* another one is live-locked
C10_Witness ==
    /\ last.op = "seats"
    /\ last.status = 200
    /\ LET r == getSeatStateForDate(bookings, locks, last.date, clock, clock) IN
       \E j, k \in 1..Len(r.seats) :
           /\ r.seats[j].status = "occupied"
           /\ r.seats[j].bookedBy # NoUser
           /\ r.seats[k].status = "locked"
           /\ r.seats[k].lockExpiry > clock

\* the Leave records of (userId, d)
LeavesOf(lv, userId, d) ==
    {i \in 1..Len(lv) : lv[i].userId = userId /\ lv[i].date = d}

\* C11: a markLeave call leaves exactly one Leave record for its (user, date);
\* the first call for the pair adds 1 to the floaterLeaveCount of a user with a
\* designated seat and 0 otherwise, and a call for a pair that already has a
\* record changes neither the Leave records nor any floaterLeaveCount.
C11_MarkLeaveIdempotent ==
    /\ \A u \in UserIds, d \in Dates : Cardinality(LeavesOf(leaves, u, d)) <= 1
    /\ \A u \in UserIds, d \in Dates :
        LET r == LeaveCall(u, d)
            first == LeavesOf(leaves, u, d) = {}
            step == IF first /\ users[u].designatedSeatId # Null THEN 1 ELSE 0
        IN  /\ r.status = 200
            /\ Cardinality(LeavesOf(r.leaves, u, d)) = 1
            /\ r.users[u].floaterLeaveCount = users[u].floaterLeaveCount + step
            /\ \A v \in UserIds \ {u} : r.users[v] = users[v]
            /\ ~first => (r.leaves = leaves /\ r.users = users)
            /\ \A v \in UserIds, e \in Dates :
                  (v # u \/ e # d) => LeavesOf(r.leaves, v, e) = LeavesOf(leaves, v, e)

\* a user with a designated seat has marked leave, and its one record and a
\* floaterLeaveCount of 1 stand
C11_Witness ==
    /\ last.op = "leave"
    /\ last.status = 200
    /\ users[last.user].designatedSeatId # Null
    /\ users[last.user].floaterLeaveCount = 1
    /\ Cardinality(LeavesOf(leaves, last.user, last.date)) = 1

\* C12: markLeave(user, date) returns Bookings without any Booking of the user
\* on the date, and with all Bookings of other users or other dates as they
\* were; a user on leave never holds a Booking for the date of the leave.
C12_LeaveCancelsBookings ==
    /\ \A i \in 1..Len(leaves) :
          ~Exists(bookings, LAMBDA b : b.userId = leaves[i].userId
                                       /\ b.date = leaves[i].date)
    /\ \A u \in UserIds, d \in Dates :
        LET r == LeaveCall(u, d)
            kept == {i \in 1..Len(bookings) :
                        bookings[i].userId # u \/ bookings[i].date # d}
        IN  /\ \A j \in 1..Len(r.bookings) :
                  r.bookings[j].userId # u \/ r.bookings[j].date # d
            /\ Len(r.bookings) = Cardinality(kept)
            /\ \A i \in kept :
                  r.bookings[Cardinality({k \in kept : k <= i})] = bookings[i]

\* a user has marked leave on a date for which another user holds a Booking,
\* which stands
C12_Witness ==
    /\ last.op = "leave"
    /\ last.status = 200
    /\ isUserOnLeave(last.user, last.date)
    /\ Exists(bookings, LAMBDA b : b.date = last.date /\ b.userId # last.user)
    /\ ~Exists(bookings, LAMBDA b : b.date = last.date /\ b.userId = last.user)

\* seat s is a designated seat with an owner
Owned(s) ==
    LET i == getSeatDefinition(seatDefinitions, s) IN
    /\ i # 0
    /\ seatDefinitions[i].type = "designated"
    /\ seatDefinitions[i].assignedTo # NoUser

OwnerOf(s) == seatDefinitions[getSeatDefinition(seatDefinitions, s)].assignedTo

\* the advance cutoff lets a request for date d through at clock value t
CutoffSatisfied(d, t) == ~(d = DayOf(t) + 1 /\ HourOf(t) < 15)

\* C13: when the owner of designated seat s is on leave on d, every other user
\* who is not on leave on d gets both an acquire and a confirm of s on d
\* accepted, provided d is a weekday and no holiday, the advance cutoff is
\* satisfied and s is neither booked nor live-locked by someone else.
C13_FloaterOverride ==
    \A s \in Seats, v \in UserIds, d \in Dates, t \in ClockReads :
        ( /\ Owned(s)
          /\ OwnerOf(s) # v
          /\ isUserOnLeave(OwnerOf(s), d)
          /\ ~isUserOnLeave(v, d)
          /\ ~isWeekend(d)
          /\ ~isHoliday(holidays, d)
          /\ CutoffSatisfied(d, t[1])
          /\ findBooking(bookings, d, s) = 0
          /\ \A i \in LocksOn(locks, d, s) :
                locks[i].userId = v \/ locks[i].lockExpiry <= clock )
        => /\ LockCall(bookings, locks, v, d, <<s>>, t[1], t[2], t[3]).status = 200
           /\ BookCall(bookings, locks, v, d, <<s>>, t[1], t[2], t[3]).status = 200

\* C14: while the owner of designated seat s has no leave on d, every acquire
\* and confirm on a list holding s is rejected for every other user, and for
\* the owner unless the owner's batch is scheduled on d; a rejected call
\* creates no Booking and no Lock, so a Booking on (d, s) is the owner's, made
\* on a batch day, unless the owner is on leave on d.
C14_DesignatedOwnership ==
    /\ \A i \in 1..Len(bookings) :
          LET b == bookings[i] IN
          (Owned(b.seatId) /\ ~isUserOnLeave(OwnerOf(b.seatId), b.date))
          => /\ b.userId = OwnerOf(b.seatId)
             /\ isBatchScheduledOnDate(batchSchedule, users[b.userId].batch, b.date)
    /\ \A s \in {x \in Seats : Owned(x)} :
        \A d \in {x \in Dates : ~isUserOnLeave(OwnerOf(s), x)} :
            \A l \in {x \in CoreLists : Includes(x, s)} :
                \A v \in UserIds, t \in ClockReads, op \in {"lock", "book"} :
                    LET r == ClaimCall(op, bookings, locks, v, d, l, t)
                        allowed ==
                            /\ v = OwnerOf(s)
                            /\ isBatchScheduledOnDate(batchSchedule, users[v].batch, d)
                    IN  /\ ~allowed => r.status = 400
                        /\ r.status = 400 =>
                              /\ r.bookings = bookings
                              /\ \A j \in 1..Len(r.locks) : Includes(locks, r.locks[j])

\* a confirm of another user on an owned seat whose owner is not on leave has
\* just been rejected for the ownership
C14_Witness ==
    /\ last.op = "book"
    /\ last.status = 400
    /\ last.msg.text = E_NOTYOURS
    /\ Owned(last.msg.seat)
    /\ OwnerOf(last.msg.seat) # last.user
    /\ ~isUserOnLeave(OwnerOf(last.msg.seat), last.date)

\* user u may take seat s on date d as far as ownership goes
Eligible(u, d, s) ==
    \/ ~Owned(s)
    \/ isUserOnLeave(OwnerOf(s), d)
    \/ /\ OwnerOf(s) = u
       /\ isBatchScheduledOnDate(batchSchedule, users[u].batch, d)

\* a confirm of list l by u for d meets every condition but the cutoff
ConfirmableButCutoff(u, d, l) ==
    /\ ~isWeekend(d)
    /\ ~isHoliday(holidays, d)
    /\ ~isUserOnLeave(u, d)
    /\ \A k \in 1..Len(l) : Eligible(u, d, l[k]) /\ Free(d, l[k])

\* C15: a confirm for the day after the current day is rejected with a policy
\* error while the local hour is below 15; with a weekday, no holiday, no leave
\* and eligible free seats the confirm succeeds exactly when the date is not
\* tomorrow or the hour is 15 or more, and is refused for the cutoff otherwise.
C15_AdvanceCutoff ==
    \A u \in UserIds, d \in Dates, l \in CoreLists, t \in ClockReads :
        LET r == BookCall(bookings, locks, u, d, l, t[1], t[2], t[3]) IN
        /\ (d = DayOf(t[1]) + 1 /\ HourOf(t[1]) < 15) =>
              /\ r.status = 400
              /\ r.msg.text \in {E_BOOKDAY, E_LEAVE, E_ADVANCE}
        /\ ConfirmableButCutoff(u, d, l) =>
              /\ r.status = 200 <=> (d # DayOf(t[1]) + 1 \/ HourOf(t[1]) >= 15)
              /\ r.status # 200 => r.msg = Msg(E_ADVANCE, Null)

\* a confirm for tomorrow has just succeeded, the clock having reached 15:00
C15_Witness ==
    /\ last.op = "book"
    /\ last.status = 200
    /\ last.date = DayOf(clock) + 1
    /\ HourOf(clock) = 15
    /\ Exists(bookings, LAMBDA b : b.date = last.date /\ b.userId = last.user)

\* C16: an acquire for tomorrow made while the local hour is below 15 is not
\* refused for the advance cutoff, and succeeds when the request meets every
\* other condition.
C16_LockIgnoresCutoff ==
    \A u \in UserIds, d \in Dates, l \in CoreLists, t \in ClockReads :
        (d = DayOf(t[1]) + 1 /\ HourOf(t[1]) < 15) =>
            LET r == LockCall(bookings, locks, u, d, l, t[1], t[2], t[3]) IN
            /\ r.msg.text # E_ADVANCE
            /\ ConfirmableButCutoff(u, d, l) => r.status = 200

\* the positions of list l whose seat has no Booking of user u on date d
NotOwn(u, d, l) ==
    {k \in 1..Len(l) :
        ~Exists(bookings, LAMBDA b : b.date = d /\ b.seatId = l[k] /\ b.userId = u)}

\* the non-empty lists a request may carry, unknown seat ids included
RequestLists == {l \in SeatIdLists : Len(l) > 0}

\* C17: a cancel is rejected when a requested seat has no Booking of the caller
\* for the date, names the first such seat when all requested seats are in the
\* catalog, and leaves every Booking and Lock as it was.
C17_CancelRejectsForeignSeat ==
    \A u \in UserIds, d \in CoreDates, l \in RequestLists :
        NotOwn(u, d, l) # {} =>
            LET r == CancelCall(u, d, l)
                k == CHOOSE x \in NotOwn(u, d, l) : \A y \in NotOwn(u, d, l) : x <= y
            IN  /\ r.status = 400
                /\ r.bookings = bookings
                /\ r.locks = locks
                /\ (\A j \in 1..Len(l) : l[j] \in Seats) => r.msg = Msg(E_CANCEL, l[k])

\* C18: a successful cancel removes the caller's Bookings on the requested
\* seats of the date and nothing else, leaves no Lock of any user on a
\* requested seat of the date and every other Lock as it was, and each seat it
\* cancelled is projected 'available' afterwards.
C18_CancelFrame ==
    \A u \in UserIds, d \in CoreDates, l \in RequestLists :
        LET r == CancelCall(u, d, l)
            gone(b) == b.userId = u /\ b.date = d /\ Includes(l, b.seatId)
            kept == {i \in 1..Len(bookings) : ~gone(bookings[i])}
            cancelled == {i \in 1..Len(bookings) : gone(bookings[i])}
        IN  r.status = 200 =>
            /\ \A j \in 1..Len(r.bookings) : ~gone(r.bookings[j])
            /\ Len(r.bookings) = Cardinality(kept)
            /\ \A i \in kept :
                  r.bookings[Cardinality({k \in kept : k <= i})] = bookings[i]
            /\ \A j \in 1..Len(r.locks) :
                  /\ ~(r.locks[j].date = d /\ Includes(l, r.locks[j].seatId))
                  /\ Includes(locks, r.locks[j])
            /\ \A i \in 1..Len(locks) :
                  ~(locks[i].date = d /\ Includes(l, locks[i].seatId))
                      => Includes(r.locks, locks[i])
            /\ \A i \in cancelled, t \in ClockReads :
                  LET v == getSeatStateForDate(r.bookings, r.locks, d, t[2], t[3]) IN
                  \A k \in 1..Len(v.seats) :
                      v.seats[k].seatId = bookings[i].seatId
                          => v.seats[k].status = "available"

\* C19: for a date that is a Saturday or Sunday (Sat 2024-01-06, Sun
\* 2024-01-07) or is in the holiday set, every acquire and every confirm, of every user and with every seat list, is
\* rejected and leaves Bookings and Locks as they were.
C19_NoWeekendOrHoliday ==
    \A d \in {x \in Dates \cup {Today + 4} :
                getDayName(x) \in {"Sat", "Sun"} \/ x \in holidays} :
        \A u \in UserIds, l \in CoreLists \cup [1..1 -> SeatIdInputs], t \in ClockReads,
           op \in {"lock", "book"} :
            LET r == ClaimCall(op, bookings, locks, u, d, l, t) IN
            /\ r.status = 400
            /\ r.bookings = bookings
            /\ r.locks = locks

\* an acquire for a Saturday has just been rejected for the day
C19_Witness ==
    /\ last.op = "lock"
    /\ last.status = 400
    /\ last.msg.text = E_LOCKDAY
    /\ getDayName(last.date) = "Sat"
    /\ ~Exists(locks, LAMBDA l : l.date = last.date)

\* C20: a user with a Leave record for a date gets every acquire and every
\* confirm for that date rejected, on floater seats and on the user's own
\* designated seat alike, and the call leaves Bookings and Locks as they were.
C20_NoClaimOnLeave ==
    \A i \in 1..Len(leaves) :
        \A l \in SeatIdLists, t \in ClockReads, op \in {"lock", "book"} :
            LET r == ClaimCall(op, bookings, locks, leaves[i].userId, leaves[i].date, l, t) IN
            /\ r.status = 400
            /\ r.bookings = bookings
            /\ r.locks = locks

\* an acquire by the owner of a designated seat, who is on leave on the date,
\* has just been rejected for the leave
C20_Witness ==
    /\ last.op = "lock"
    /\ last.status = 400
    /\ last.msg.text = E_LEAVE
    /\ isUserOnLeave(last.user, last.date)
    /\ Len(last.seatIds) = 1
    /\ users[last.user].designatedSeatId = last.seatIds[1]

\* C21: a release answers 200 for every list of catalog seats, removes the
\* caller's Locks on the requested seats of the date and no other Lock, in
\* particular none when the caller holds no Lock there, and a rejected release
\* removes nothing; a release step never changes the Bookings.
C21_ReleaseFrame ==
    /\ [](\A u \in UserIds, d \in CoreDates, l \in RequestLists :
            LET r == UnlockCall(u, d, l)
                mine(x) == x.userId = u /\ x.date = d /\ Includes(l, x.seatId)
                kept == {i \in 1..Len(locks) : ~mine(locks[i])}
            IN  /\ (\A k \in 1..Len(l) : l[k] \in Seats) => r.status = 200
                /\ r.status # 200 => r.locks = locks
                /\ r.status = 200 =>
                      /\ \A j \in 1..Len(r.locks) : ~mine(r.locks[j])
                      /\ Len(r.locks) = Cardinality(kept)
                      /\ \A i \in kept :
                            r.locks[Cardinality({k \in kept : k <= i})] = locks[i]
                      /\ kept = 1..Len(locks) => r.locks = locks)
    /\ [][last'.op = "unlock" =>
            /\ bookings' = bookings
            /\ locks' = UnlockCall(last'.user, last'.date, last'.seatIds).locks]_vars

\* a release of a seat that only another user has locked has just succeeded,
\* and that Lock stands
C21_Witness ==
    /\ last.op = "unlock"
    /\ last.status = 200
    /\ Exists(locks, LAMBDA x : x.date = last.date /\ Includes(last.seatIds, x.seatId)
                                /\ x.userId # last.user)
    /\ ~Exists(locks, LAMBDA x : x.date = last.date /\ Includes(last.seatIds, x.seatId)
                                 /\ x.userId = last.user)

\* the Lock records keyed (d, seatId, userId)
LocksKeyed(ls, d, seatId, userId) ==
    {i \in LocksOn(ls, d, seatId) : ls[i].userId = userId}

\* C22: a successful acquire whose handler reads time t leaves, for every
\* requested seat, exactly one Lock record keyed (date, seat, caller), with
\* expiry t + 2 minutes, whether or not the caller held the seat before and
\* also when the list repeats a seat id; no reachable state has two records
\* with the same key.
C22_AcquireSetsOneLock ==
    /\ \A d \in Dates, s \in Seats, u \in UserIds :
          Cardinality(LocksKeyed(locks, d, s, u)) <= 1
    /\ \A u \in UserIds, d \in CoreDates, l \in CoreLists, t \in ClockReads :
          LET r == LockCall(bookings, locks, u, d, l, t[1], t[2], t[3]) IN
          r.status = 200 =>
              \A k \in 1..Len(l) :
                  /\ Cardinality(LocksKeyed(r.locks, d, l[k], u)) = 1
                  /\ \A i \in LocksKeyed(r.locks, d, l[k], u) :
                        r.locks[i].lockExpiry = t[3] + LOCK_DURATION_MS

\* an acquire of a list that names one seat twice has just succeeded at a time
\* after the start, beside an expired record of another user on the same seat
C22_Witness ==
    /\ last.op = "lock"
    /\ last.status = 200
    /\ clock > 0
    /\ Len(last.seatIds) = 2
    /\ last.seatIds[1] = last.seatIds[2]
    /\ \E i \in 1..Len(locks) :
          /\ LocksKeyed(locks, last.date, last.seatIds[1], last.user) = {i}
          /\ locks[i].lockExpiry = clock + LOCK_DURATION_MS
    /\ Exists(locks, LAMBDA x : x.date = last.date /\ x.seatId = last.seatIds[1]
                                /\ x.userId # last.user /\ x.lockExpiry <= clock)

\* C23: a confirm of more than 5 seat ids is rejected whatever the state of
\* the seats, and leaves Bookings and Locks as they were; a confirm of 5 seat
\* ids is never refused for the size, and with catalog seats succeeds when it
\* meets every other condition.
C23_SizeLimit ==
    \A u \in UserIds, d \in CoreDates, l \in SizeLists, t \in ClockReads :
        LET r == BookCall(bookings, locks, u, d, l, t[1], t[2], t[3]) IN
        /\ Len(l) > 5 =>
              /\ r.status = 400
              /\ r.bookings = bookings
              /\ r.locks = locks
        /\ Len(l) <= 5 =>
              /\ r.msg.text # E_MAXSEATS
              /\ ( /\ \A k \in 1..Len(l) : l[k] \in Seats
                    /\ ConfirmableButCutoff(u, d, l)
                    /\ CutoffSatisfied(d, t[1]) )
                    => r.status = 200

\* a confirm of six ids of a free seat locked by the caller has just been
\* rejected for the size, and the Lock stands
C23_Witness ==
    /\ last.op = "book"
    /\ last.status = 400
    /\ last.msg.text = E_MAXSEATS
    /\ Len(last.seatIds) = 6
    /\ findBooking(bookings, last.date, last.seatIds[1]) = 0
    /\ LocksKeyed(locks, last.date, last.seatIds[1], last.user) # {}

InCycle(d, c) == d >= c.start /\ d <= c.end

\* C24: the two-week cycles partition the calendar: a date inside the range
\* computed for d1 has the same range as d1, and every cycle runs from the
\* Monday of an odd ISO week to the Sunday of the following even ISO week,
\* also across year boundaries and in years with 53 ISO weeks.
C24_CyclesPartition ==
    last.op = "seats" /\ last.status = 200 =>
        LET c == getCycleBounds(last.date) IN
        /\ \A d2 \in CalRange : InCycle(d2, c) => getCycleBounds(d2) = c
        /\ InCycle(last.date, c)
        /\ getDayName(c.start) = "Mon" /\ isoWeek(c.start) % 2 = 1
        /\ getDayName(c.end) = "Sun" /\ isoWeek(c.end) % 2 = 0
        /\ c.end = c.start + 13

\* the odd/even ISO-week pair of a date: the ISO week-numbering year and the
\* number of the pair within it
PairOf(d) ==
    LET th == (d - (d % 7)) + 3
    IN  <<YearFrom(th, 2024, 0).year, (isoWeek(d) + 1) \div 2>>

AttendedDates(userId, d) ==
    {bookings[i].date : i \in {j \in 1..Len(bookings) :
                                  /\ bookings[j].userId = userId
                                  /\ PairOf(bookings[j].date) = PairOf(d)}}

\* C25: the attendance count of the policy summary for (user, date) is the
\* number of distinct dates of the date's odd/even ISO-week pair on which the
\* user holds a Booking: a booking counts from every date of its own pair
\* and from no date of another cycle.
C25_AttendanceCount ==
    \A u \in UserIds : \A d \in CalDates :
        buildPolicySummary(u, d).attendanceCount = Cardinality(AttendedDates(u, d))

\* C26: no operation open to a caller who is not an admin (signup, login,
\* acquire, release, confirm, cancel, leave, batch switch, seat query) changes
\* the type or the owner of a seat of the catalog.
C26_CatalogFrame ==
    [][last'.op \notin AdminOps => seatDefinitions' = seatDefinitions]_vars

\* C27: every admin route called by an authenticated user whose isAdmin flag
\* is false is answered 403 and leaves bookings, locks, leaves, catalog,
\* batch schedule, holiday set and users as they are.
C27_AdminForbidden ==
    \A u \in UserIds : \A op \in AdminOps : \A a \in AdminArgs(op) :
        ~users[u].isAdmin =>
            AdminCall(op, u, a) = Stores(403, Msg(E_ADMIN, Null))

C27_Witness ==
    /\ last.op = "force-cancel"
    /\ last.status = 403
    /\ ~users[last.user].isAdmin
    /\ \E i \in 1..Len(bookings) : bookings[i].date = Today /\ bookings[i].seatId = 1
    /\ locks # <<>>
    /\ leaves # <<>>

\* C28: once the clock has reached the expiry (acquire time + 2 minutes) of
\* every Lock on (d, s), the lock not having been renewed nor confirmed, the
\* seat without Booking is projected 'available' and an acquire or a confirm
\* of it by any other user whom validation and policy let through succeeds,
\* with no release by the holder.
C28_ExpiryFreesSeat ==
    \A d \in CoreDates, s \in Seats, t \in ClockReads :
        ( /\ findBooking(bookings, d, s) = 0
          /\ \A i \in LocksOn(locks, d, s) : locks[i].lockExpiry <= clock )
        =>
        /\ getSeatStateForDate(bookings, locks, d, t[2], t[3]).seats[s].status = "available"
        /\ \A v \in UserIds :
              (\A i \in LocksOn(locks, d, s) : locks[i].userId # v) =>
              /\ PassesLockPolicy(v, d, <<s>>, t[1]) =>
                    LET r == LockCall(bookings, locks, v, d, <<s>>, t[1], t[2], t[3]) IN
                    /\ r.status = 200
                    /\ \E i \in 1..Len(r.locks) :
                          /\ r.locks[i].date = d /\ r.locks[i].seatId = s
                          /\ r.locks[i].userId = v
                          /\ r.locks[i].lockExpiry = t[3] + LOCK_DURATION_MS
              /\ PassesBookPolicy(v, d, <<s>>, t[1]) =>
                    LET r == BookCall(bookings, locks, v, d, <<s>>, t[1], t[2], t[3]) IN
                    /\ r.status = 200
                    /\ \E i \in 1..Len(r.bookings) :
                          /\ r.bookings[i].date = d /\ r.bookings[i].seatId = s
                          /\ r.bookings[i].userId = v

\* the Lock of one user on a seat without Booking has expired and is still in
\* the store, and an acquire and a confirm of the seat by another user succeed
C28_Witness ==
    \E i \in 1..Len(locks) :
        /\ locks[i].lockExpiry <= clock
        /\ findBooking(bookings, locks[i].date, locks[i].seatId) = 0
        /\ LocksOn(locks, locks[i].date, locks[i].seatId) = {i}
        /\ \E v \in UserIds \ {locks[i].userId} :
              /\ PassesLockPolicy(v, locks[i].date, <<locks[i].seatId>>, clock)
              /\ LockCall(bookings, locks, v, locks[i].date, <<locks[i].seatId>>,
                          clock, clock, clock).status = 200
              /\ BookCall(bookings, locks, v, locks[i].date, <<locks[i].seatId>>,
                          clock, clock, clock).status = 200

\* C29: an acquire is all-or-nothing.  A request that fails validation or
\* policy, or holds a seat that is booked or carries a live Lock of another
\* user, is rejected; a rejected acquire creates no Lock and renews none of
\* the caller, for no seat of the request: the Bookings are the same and every
\* Lock record left is a record of before, all the live ones being kept.
C29_AcquireAllOrNothing ==
    \A u \in UserIds, d \in PolicyDates \cup {Null}, t \in ClockReads :
      \A l \in CoreLists \cup [1..1 -> SeatIdInputs] \cup {<<>>} :
        LET r == LockCall(bookings, locks, u, d, l, t[1], t[2], t[3]) IN
        /\ ( \/ d = Null
             \/ validateSeatIds(l) # NoError
             \/ ~PassesLockPolicy(u, d, l, t[1])
             \/ \E k \in 1..Len(l) :
                   \/ findBooking(bookings, d, l[k]) # 0
                   \/ \E i \in LocksOn(locks, d, l[k]) :
                         locks[i].userId # u /\ locks[i].lockExpiry > t[3] )
           => r.status # 200
        /\ r.status # 200 =>
              /\ r.bookings = bookings
              /\ r.locks = SelectSeq(locks, LAMBDA x : Includes(r.locks, x))
              /\ WithoutExpired(r.locks, t[3]) = WithoutExpired(locks, t[3])

\* an acquire of two seats has just been refused for the second one, while
\* the first one is free and the caller holds a Lock on it from before
C29_Witness ==
    /\ last.op = "lock"
    /\ last.status = 400
    /\ Len(last.seatIds) = 2
    /\ last.msg.seat = last.seatIds[2]
    /\ last.seatIds[1] # last.seatIds[2]
    /\ findBooking(bookings, last.date, last.seatIds[1]) = 0
    /\ \E i \in LocksOn(locks, last.date, last.seatIds[1]) :
          /\ locks[i].userId = last.user
          /\ locks[i].lockExpiry > clock
          /\ locks[i].lockExpiry < clock + LOCK_DURATION_MS

\* C30: within one acquire, confirm or projection call lock liveness is decided
\* against one clock value: whatever the clock does while the call runs, no Lock
\* is live for the purge and expired for a later check, so the answer is the
\* one the call gives when all its checks use a single clock value.
C30_SingleClockValue ==
    \A u \in UserIds, d \in CoreDates, l \in CoreLists, t \in ClockReads :
        \E c \in {t[2], t[3]} :
            /\ \A op \in {"lock", "book"} :
                  LET r == ClaimCall(op, bookings, locks, u, d, l, t)
                      q == ClaimCall(op, bookings, locks, u, d, l, <<t[1], c, c>>)
                  IN  r.status = q.status /\ r.msg = q.msg
            /\ getSeatStateForDate(bookings, locks, d, t[2], t[3]).seats
                  = getSeatStateForDate(bookings, locks, d, c, c).seats

\* the first failing check of the order of C31, NoError when all pass
FirstFailure(op, u, d, l, t) ==
    LET unknown == FindIndex(l, LAMBDA id : id \notin {seatDefinitions[k].seatId :
                                                        k \in 1..Len(seatDefinitions)})
        isBatchDay == isBatchScheduledOnDate(batchSchedule, users[u].batch, d)
        mine(id) ==
            LET def == seatDefinitions[getSeatDefinition(seatDefinitions, id)] IN
            IF def.type # "designated" \/ def.assignedTo = NoUser
               \/ isUserOnLeave(def.assignedTo, d) THEN NoError
            ELSE IF def.assignedTo # u THEN Msg(E_NOTYOURS, id)
            ELSE IF ~isBatchDay THEN Msg(E_BATCHDAY, Null)
            ELSE NoError
        seat == FindIndex(l, LAMBDA id : mine(id) # NoError)
    IN  IF Len(l) = 0 THEN Msg(E_EMPTY, Null)
        ELSE IF unknown # 0 THEN Msg(E_NOSEAT, l[unknown])
        ELSE IF getDayName(d) \in {"Sat", "Sun"} \/ d \in holidays
             THEN Msg(IF op = "lock" THEN E_LOCKDAY ELSE E_BOOKDAY, Null)
        ELSE IF isUserOnLeave(u, d) THEN Msg(E_LEAVE, Null)
        ELSE IF ~CutoffSatisfied(d, t[1]) THEN Msg(E_ADVANCE, Null)
        ELSE IF seat # 0 THEN mine(l[seat])
        ELSE NoError

\* C31: an acquire or a confirm reports the first failing check in the order
\* empty list or unknown seat id, weekend or holiday, caller on leave, advance
\* cutoff, designated ownership seat by seat in request order; a Booking or a
\* Lock in the way is reported only when all of these pass.
C31_FirstFailureOrder ==
    \A u \in UserIds, d \in Dates, l \in SeatIdLists, t \in ClockReads :
        \A op \in {"lock", "book"} :
            LET r == ClaimCall(op, bookings, locks, u, d, l, t)
                f == FirstFailure(op, u, d, l, t)
            IN  /\ f # NoError => r.status = 400 /\ r.msg = f
                /\ f = NoError =>
                      \/ r.status = 200
                      \/ r.msg.text \in {E_BOOKED, E_LOCKED, E_EXPIRED}

\* C34: in every reachable state no (date, seatId) has both a Booking and a
\* Lock record, live or expired, of any user.
C34_NoBookingWithLock ==
    \A i \in 1..Len(bookings) : \A j \in 1..Len(locks) :
        ~(bookings[i].date = locks[j].date /\ bookings[i].seatId = locks[j].seatId)

\* a confirm has just booked a seat while a Lock on another seat is in the
\* store, and a confirm by the holder of that Lock would remove it
C34_Witness ==
    /\ last.op = "book"
    /\ last.status = 200
    /\ \E i \in 1..Len(bookings) :
          bookings[i].date = last.date /\ Includes(last.seatIds, bookings[i].seatId)
    /\ \E j \in 1..Len(locks) :
          LET r == BookCall(bookings, locks, locks[j].userId, locks[j].date,
                            <<locks[j].seatId>>, clock, clock, clock)
          IN  /\ locks[j].lockExpiry > clock
              /\ r.status = 200
              /\ LocksOn(r.locks, locks[j].date, locks[j].seatId) = {}

\* C35: in every reachable state no user has both a Leave record and a Booking
\* for the same date.
C35_NoBookingOnLeave ==
    \A i \in 1..Len(leaves) : \A j \in 1..Len(bookings) :
        ~(leaves[i].userId = bookings[j].userId /\ leaves[i].date = bookings[j].date)

\* a leave has just been recorded for a user who is refused a confirm on that
\* date, while another user holds a Booking for the date
C35_Witness ==
    /\ last.op = "leave"
    /\ last.status = 200
    /\ isUserOnLeave(last.user, last.date)
    /\ \E j \in 1..Len(bookings) :
          bookings[j].date = last.date /\ bookings[j].userId # last.user
    /\ \E s \in Seats :
          /\ findBooking(bookings, last.date, s) = 0
          /\ BookCall(bookings, locks, last.user, last.date, <<s>>,
                      clock, clock, clock).msg = Msg(E_LEAVE, Null)

\* C36: the two sides of designated-seat ownership agree in every reachable
\* state: a user's designatedSeatId is s exactly when catalog seat s is
\* designated and owned by that user.
C36_OwnershipAgrees ==
    \A u \in DOMAIN users : \A i \in 1..Len(seatDefinitions) :
        users[u].designatedSeatId = seatDefinitions[i].seatId
        <=> ( /\ seatDefinitions[i].type = "designated"
              /\ seatDefinitions[i].assignedTo = u )

\* C37: a signup that succeeds creates a user record under a userId no
\* existing record has, so it never overwrites a record and any two accounts
\* have distinct userIds, whatever the interleaving of the signup requests.
C37_FreshUserId ==
    [][(Len(inflight') < Len(inflight) /\ last'.status = 200)
           => last'.user \notin DOMAIN users]_vars

\* C38: in every reachable state every user record has isAdmin = FALSE, the
\* holiday set is empty, the batch schedule is the default one, and an admin
\* route that was called has been answered 403.
C38_NoAdminEver ==
    /\ \A u \in DOMAIN users : ~users[u].isAdmin
    /\ holidays = {}
    /\ batchSchedule = DEFAULT_BATCH_SCHEDULE
    /\ last.op \in AdminOps => last.status = 403

\* an account created by a signup toggled a holiday while a booking exists,
\* and was refused
C38_Witness ==
    /\ last.op = "holidays"
    /\ last.status = 403
    /\ last.user \notin UserIds
    /\ last.user \in DOMAIN users
    /\ bookings # <<>>

\* C39: the week type of a date differs from the week type of the date one
\* week later, so each batch is scheduled on a weekday in exactly one of two
\* consecutive weeks, and on a weekday exactly one of batch1 and batch2 is
\* scheduled; also from ISO week 53 to week 1 of the next year.
C39_RotationAlternates ==
    (last.op = "seats" /\ last.status = 200) =>
        LET d == last.date IN
        /\ getWeekType(d) # getWeekType(d + 7)
        /\ (~isWeekend(d) =>
               \A b \in {"batch1", "batch2"} :
                   isBatchScheduledOnDate(batchSchedule, b, d)
                       # isBatchScheduledOnDate(batchSchedule, b, d + 7))
        /\ (~isWeekend(d) =>
               isBatchScheduledOnDate(batchSchedule, "batch1", d)
                   # isBatchScheduledOnDate(batchSchedule, "batch2", d))

====
